---- MODULE Spec2Model ----
(***************************************************************************)
(* Live control loop of the single-position options trading controller     *)
(* (backend/trading_bot.py, backend/bot_service.py, backend/utils.py).      *)
(*                                                                         *)
(* Prices are integer ticks.  The indicator engine is abstracted to the     *)
(* values a candle close hands to the loop (direction, band value, which    *)
(* contract is eligible).  The broker client is synchronous                 *)
(* (dhan_api.place_order has no await in its body), so the loop task only   *)
(* suspends in asyncio.sleep / the websocket broadcast; the steps between   *)
(* two suspensions are kept apart by pc so that an order submission and     *)
(* the state update that follows it are two distinguishable steps.          *)
(*                                                                         *)
(* The components the loop and the replay are built from are modelled on   *)
(* their own, each under its own specification with the loop at rest: the   *)
(* decision agent (backend/strategy_agent.py), the slope + band entry       *)
(* condition, the SuperTrend indicator (backend/indicators.py) and the      *)
(* replay's position handling (backend/backtest.py).                        *)
(***************************************************************************)
EXTENDS Integers, Sequences, FiniteSets, TLC

\* ---------------------------------------------------------------- bounds
MaxPrice == 2

MaxDays == 2

MaxExitFills == 2

MaxTradesPerDay == 2

\* ------------------------------------------------------ program constants
StartWeekday == 3

\* ------------------------------------------------------------- optionals
None == <<>>

Some(v) == <<v>>

Val(x) == x[1]

Max(a, b) == IF a >= b THEN a ELSE b

\* Python int(a / b): truncation toward zero
TruncDiv(a, b) == IF a >= 0 THEN a \div b ELSE -((-a) \div b)

\* Python truthiness of an Optional[float]: None and 0.0 are falsy
Truthy(x) == x # None /\ Val(x) # 0

Prices == 1..MaxPrice

Quotes == 0..MaxPrice

\* band value of a contract at a candle close (None before warm-up; the
\* lower band hl2 - multiplier * ATR can be as low as 0)
StVals == {None} \cup {Some(p) : p \in 0..(MaxPrice - 1)}

OptionTypes == {"CE", "PE"}

\* what the order book says of an accepted BUY when it is asked
FillOutcomes == {"FILLED", "PENDING"}

\* clock readings (HHMM, IST) the loop can observe during one trading day
ClockTimes == <<915, 930, 1525>>

StrategyModes == {"agent", "supertrend", "st_macd_hist"}

\* the risk knobs and the order size: every cap and trailing disabled (0),
\* loose caps with profit lock and step trailing, tight caps
RiskConfig(dml, mlpt, tp, tsp, ts, isl, oq) ==
    [daily_max_loss |-> dml, max_loss_per_trade |-> mlpt, target_points |-> tp,
     trail_start_profit |-> tsp, trail_step |-> ts, initial_stoploss |-> isl,
     order_qty |-> oq]

ConfigDomain ==
    {RiskConfig(0, 0, 0, 0, 0, 1, 3),
     RiskConfig(3, 2, 0, 1, 1, 1, 3),
     RiskConfig(1, 1, 1, 1, 1, 1, 1)}

VARIABLES
    running,          \* TradingBot.running
    pc,               \* position of the run_loop task
    mode,             \* bot_state['mode']
    strategy_mode,    \* bot_state['strategy_mode']
    config,           \* the risk knobs of config
    clock,            \* index into ClockTimes
    date,             \* IST calendar day
    last_reset_date,  \* TradingBot._last_daily_reset_date
    position,         \* TradingBot.current_position
    entry_price,      \* TradingBot.entry_price
    trailing_sl,      \* TradingBot.trailing_sl
    highest_profit,   \* TradingBot.highest_profit
    ltp,              \* bot_state['current_option_ltp']
    daily_pnl,        \* bot_state['daily_pnl']
    daily_trades,     \* bot_state['daily_trades']
    halted,           \* bot_state['daily_max_loss_triggered']
    pend,             \* the close_position / enter_position call in progress
    sig,              \* contract chosen for entry at this candle close
    exit_fills,       \* broker side: accepted SELL orders for the held Position
    entry_fill,       \* broker side: fill outcome of the held Position's BUY
    phases,           \* phases run so far in the current loop iteration
    agent,            \* the STAdxMacdAgent object (wave_lock, last_trade_side)
    call,             \* the decide() call of this candle: inputs, lock found, action
    entered_wave,     \* an ENTER was returned and no candle since had a small MACD
    hist_window,      \* tracker['hist_window'], a deque(maxlen=3)
    entry_met,        \* the last entry-eligibility evaluation of the tracker
    sel,              \* the entry choice of a candle close: candidates, ATM, pick
    uni,              \* the option universe: center, expiry, contracts, trackers
    st,               \* tracker['st'], a SuperTrend object
    st_ref,           \* the same indicator fed the same candles, history never cut
    st_ret,           \* what st.add_candle returned last
    ref_ret,          \* what st_ref.add_candle returned last
    tracker,          \* tracker['last_st_value'], tracker['last_st_dir']
    bt_params,        \* run_backtest's risk arguments
    bt,               \* run_backtest's position_side, entry_price, best_favorable_points
    bt_eval,          \* the risk-exit evaluation of the current candle and its outcome
    rp,               \* run_backtest calls: arguments, locals, result
    rs,               \* _resample_candles: candles, timeframe, output
    cu,               \* update_config_values: the stored values, the call
    hfe,              \* highest profit of the open Position seen by the tick checks
    held_tracker,     \* the held contract's tracker: last_st_dir, last_st_value
    held_strike       \* current_position['strike'] in universe mode

loopVars == <<running, pc, mode, strategy_mode, config, clock, date,
              last_reset_date, position, entry_price, trailing_sl,
              highest_profit, ltp, daily_pnl, daily_trades, halted, pend, sig,
              exit_fills, entry_fill, phases>>

agentVars == <<agent, call, entered_wave>>

\* the components the live loop does not drive
entryVars == <<hist_window, entry_met, sel, uni>>

stVars == <<st, st_ref, st_ret, ref_ret, tracker>>

btVars == <<bt_params, bt, bt_eval, rp, rs>>

cfgVars == <<cu>>

trailVars == <<hfe, held_tracker, held_strike>>

compVars == <<agentVars, entryVars, stVars, btVars, cfgVars, trailVars>>

vars == <<loopVars, compVars>>

riskVars == <<position, entry_price, trailing_sl, highest_profit,
              daily_pnl, daily_trades, halted>>

\* qty = config['order_qty'] * lot_size, with a lot of one unit
Qty == config.order_qty

\* ------------------------------------------------------------------ time
Now == ClockTimes[clock]

Hour(t) == t \div 100

Minute(t) == t % 100

Weekday(d) == (StartWeekday + d - 1) % 7

IsResetMinute(t) == Hour(t) = 9 /\ Minute(t) = 15

should_force_squareoff(t) == t >= 1525

can_take_new_trade(t) == t < 1520

is_within_trading_hours(t, d) ==
    IF Weekday(d) >= 5 THEN FALSE
    ELSE IF t < 925 THEN FALSE
    ELSE IF t > 1510 THEN FALSE
    ELSE TRUE

\* ------------------------------------------------------- suspension points
SuspensionPointsWithOrders == {"sleep", "closing", "entering"}

\* awaits at which the loop task really yields to the event loop:
\* asyncio.sleep (halt, tick exit, end of iteration, error) and broadcast
SuspensionPoints == {"sleep"}

\* external commands run on the event loop, i.e. while the loop task is
\* suspended or does not exist
LoopYielded == pc \in SuspensionPoints \cup {"idle"}

NoPend == [op |-> "none", reason |-> "", latch |-> FALSE, ret |-> "",
           sent |-> FALSE, quote |-> 0]

CloseCall(reason, latch, ret) ==
    [op |-> "close", reason |-> reason, latch |-> latch, ret |-> ret,
     sent |-> FALSE, quote |-> 0]

EnterCall(q) ==
    [op |-> "enter", reason |-> "", latch |-> FALSE, ret |-> "sleep",
     sent |-> FALSE, quote |-> q]

\* ---------------------------------------------------------- stop updates
\* the lock level only, whatever the step
ApplyProfitLockNoStep(pos, entry, sl, hp, cur) ==
    LET lock_points == config.trail_start_profit
        profit_points == cur - entry
        hp1 == IF profit_points > hp THEN profit_points ELSE hp
        new_sl == entry + lock_points
    IN  IF pos = None \/ entry <= 0 \/ cur <= 0 \/ lock_points <= 0
           \/ profit_points < lock_points
        THEN [sl |-> sl, hp |-> hp]
        ELSE [sl |-> IF sl = None THEN Some(new_sl)
                     ELSE Some(Max(Val(sl), new_sl)),
              hp |-> hp1]

\* TradingBot._apply_profit_lock_and_step_trailing
ApplyProfitLock(pos, entry, sl, hp, cur) ==
    LET lock_points == config.trail_start_profit
        profit_points == cur - entry
        hp1 == IF profit_points > hp THEN profit_points ELSE hp
        lock_sl == entry + lock_points
        levels == TruncDiv(hp1 - lock_points, config.trail_step)
        step_sl == entry + lock_points + Max(0, levels) * config.trail_step
        new_sl == IF config.trail_step > 0 THEN Max(lock_sl, step_sl)
                  ELSE lock_sl
    IN  IF pos = None \/ entry <= 0 \/ cur <= 0 \/ lock_points <= 0
           \/ profit_points < lock_points
        THEN [sl |-> sl, hp |-> hp]
        ELSE [sl |-> IF sl = None THEN Some(new_sl)
                     ELSE Some(Max(Val(sl), new_sl)),
              hp |-> hp1]

\* the trailing level taken from the profit of the tick, not the highest
CheckTrailingSlOfTick(pos, entry, sl, hp, cur) ==
    LET initial_sl == config.initial_stoploss
        sl0 == IF initial_sl > 0 /\ sl = None THEN Some(entry - initial_sl)
               ELSE sl
        profit_points == cur - entry
        hp1 == IF profit_points > hp THEN profit_points ELSE hp
        new_sl == entry + TruncDiv(profit_points - config.trail_start_profit,
                                   config.trail_step) * config.trail_step
    IN  IF profit_points < config.trail_start_profit
        THEN [sl |-> sl0, hp |-> hp1]
        ELSE [sl |-> Some(new_sl), hp |-> hp1]

\* TradingBot.check_trailing_sl
CheckTrailingSl(pos, entry, sl, hp, cur) ==
    LET initial_sl == config.initial_stoploss
        sl0 == IF initial_sl > 0 /\ sl = None THEN Some(entry - initial_sl)
               ELSE sl
        trail_start == config.trail_start_profit
        trail_step == config.trail_step
        profit_points == cur - entry
        hp1 == IF profit_points > hp THEN profit_points ELSE hp
        trail_levels == TruncDiv(hp1 - trail_start, trail_step)
        new_sl == entry + trail_levels * trail_step
    IN  IF pos = None THEN [sl |-> sl, hp |-> hp]
        ELSE IF strategy_mode = "st_macd_hist" THEN [sl |-> sl0, hp |-> hp]
        ELSE IF trail_start = 0 \/ trail_step = 0 THEN [sl |-> sl0, hp |-> hp]
        ELSE IF profit_points < trail_start THEN [sl |-> sl0, hp |-> hp1]
        ELSE IF sl0 = None \/ new_sl > Val(sl0)
             THEN [sl |-> Some(new_sl), hp |-> hp1]
             ELSE [sl |-> sl0, hp |-> hp1]

\* the stop update shared by check_tick_sl and check_trailing_sl_on_close
UpdateTrailing(cur) ==
    IF strategy_mode = "st_macd_hist"
    THEN ApplyProfitLock(position, entry_price, trailing_sl, highest_profit, cur)
    ELSE CheckTrailingSl(position, entry_price, trailing_sl, highest_profit, cur)

\* ----------------------------------------------------------------- Init
\* STAdxMacdAgent.__init__; no decide() call made yet
AgentInit ==
    /\ agent = [wave_lock |-> FALSE, last_trade_side |-> None]
    /\ call = None
    /\ entered_wave = FALSE

\* TradingBot.__init__ and reset_indicator: no universe, no tracker.
\* resolved keeps what the broker answered in the rebuild that built it.
NoUniverse ==
    [center |-> None, expiry |-> None, contracts |-> [s \in {} |-> 0],
     trackers |-> [k \in {} |-> 0], resolved |-> [s \in {} |-> 0]]

\* a tracker as _ensure_option_universe builds it
EntryInit ==
    /\ hist_window = <<>>
    /\ entry_met = None
    /\ sel = [eligible_ce |-> {}, eligible_pe |-> {}, center |-> 0,
              done |-> FALSE, chosen |-> None]
    /\ uni = NoUniverse

\* SuperTrend.__init__ with the given period; the multiplier is 1 tick of
\* band per tick of ATR (any float in the configuration)
SuperTrend(period, multiplier) ==
    [period |-> period,
     multiplier |-> multiplier,
     candles |-> <<>>,
     atr_values |-> <<>>,
     supertrend_values |-> <<>>,
     direction |-> 1]

NoValue == [value |-> None, signal |-> None]

StInit(period) ==
    /\ st = SuperTrend(period, 1)
    /\ st_ref = SuperTrend(period, 1)
    /\ st_ret = NoValue
    /\ ref_ret = NoValue
    /\ tracker = [last_st_value |-> None, last_st_dir |-> None]

BtParam(sl, tgt, start, step) ==
    [initial_stoploss |-> sl,
     target_points |-> tgt,
     trail_start_profit |-> start,
     trail_step |-> step]

BtFlat ==
    [position_side |-> None, entry_price |-> None, best_favorable_points |-> 0]

\* run_backtest before its first candle, with the given risk arguments
BtInit(p) ==
    /\ bt_params = p
    /\ bt = BtFlat
    /\ bt_eval = None
    /\ rp = [pc |-> "idle", args |-> None, run |-> None, ref |-> None,
             out |-> None]
    /\ rs = [candles |-> <<>>, timeframe_minutes |-> 0, out |-> None]

\* a stored configuration with every risk value positive; no update call
CfgInit ==
    cu = [config |-> [strategy_mode |-> "agent", candle_interval |-> 5,
                      daily_max_loss |-> 1, initial_stoploss |-> 1,
                      target_points |-> 1, trail_step |-> 1],
          call |-> None]

TrailInit ==
    /\ hfe = 0
    /\ held_tracker = [last_st_dir |-> None, last_st_value |-> None]
    /\ held_strike = None

CompInit ==
    /\ AgentInit
    /\ EntryInit
    /\ StInit(2)
    /\ BtInit(BtParam(0, 0, 0, 0))
    /\ CfgInit
    /\ TrailInit

Init ==
    /\ CompInit
    /\ running = FALSE
    /\ pc = "idle"
    /\ mode = "paper"
    /\ strategy_mode = "st_macd_hist"
    /\ config \in ConfigDomain
    /\ clock = 1
    /\ date = 1
    /\ last_reset_date = 0
    /\ position = None
    /\ entry_price = 0
    /\ trailing_sl = None
    /\ highest_profit = 0
    /\ ltp = 0
    /\ daily_pnl = 0
    /\ daily_trades = 0
    /\ halted = FALSE
    /\ pend = NoPend
    /\ sig = None
    /\ exit_fills = 0
    /\ entry_fill = "NONE"
    /\ phases = <<>>

\* ------------------------------------------------------- close_position
\* the state update at the end of TradingBot.close_position, and the
\* caller's unconditional latch after it (check_tick_sl, daily cap)
CloseApplied(price, latch) ==
    LET pnl == (price - entry_price) * Qty
        dp == daily_pnl + pnl
    IN  /\ daily_pnl' = dp
        /\ halted' = (halted \/ dp < -config.daily_max_loss \/ latch)
        /\ position' = None
        /\ entry_price' = 0
        /\ trailing_sl' = None
        /\ highest_profit' = 0

\* close_position returned early: the exit order was not accepted
CloseRefused(latch) ==
    /\ halted' = (halted \/ latch)
    /\ UNCHANGED <<daily_pnl, position, entry_price, trailing_sl,
                   highest_profit>>

\* the broker accepts at most MaxExitFills exit orders for one Position
BrokerAnswers == IF exit_fills < MaxExitFills THEN BOOLEAN ELSE {FALSE}

\* ------------------------------------------------------------ squareoff
\* TradingBot.squareoff followed by the close_position it calls; in live
\* mode squareoff places its own SELL (ok1) and close_position a second
\* one (ok2).  dp and h are the daily PnL and the halt flag it starts from.
SquareoffFrom(ok1, ok2, dp, h) ==
    LET pnl == (ltp - entry_price) * Qty
        closed == mode = "paper" \/ (ok1 /\ ok2)
        fills == IF mode = "paper" THEN 0
                 ELSE IF ok1 /\ ok2 THEN 2 ELSE IF ok1 THEN 1 ELSE 0
    IN  /\ exit_fills' = exit_fills + fills
        /\ entry_fill' = IF closed THEN "NONE" ELSE entry_fill
        /\ IF closed
           THEN /\ daily_pnl' = dp + pnl
                /\ halted' = (h \/ dp + pnl < -config.daily_max_loss)
                /\ position' = None
                /\ entry_price' = 0
                /\ trailing_sl' = None
                /\ highest_profit' = 0
           ELSE /\ daily_pnl' = dp
                /\ halted' = h
                /\ UNCHANGED <<position, entry_price, trailing_sl,
                               highest_profit>>

SecondAnswers(ok1) ==
    IF ok1 /\ exit_fills + 1 < MaxExitFills THEN BOOLEAN ELSE {FALSE}

\* the force-close command of the command surface
Squareoff ==
    /\ LoopYielded
    /\ position # None
    /\ \E ok1 \in BrokerAnswers : \E ok2 \in SecondAnswers(ok1) :
          SquareoffFrom(ok1, ok2, daily_pnl, halted)
    /\ UNCHANGED <<running, pc, mode, strategy_mode, config, clock, date,
                   last_reset_date, ltp, daily_trades, pend, sig, phases>>
    /\ UNCHANGED compVars

\* ------------------------------------------------------- start and stop
Start ==
    /\ ~running
    /\ pc = "idle"
    /\ running' = TRUE
    /\ pc' = "top"
    /\ phases' = <<>>
    /\ UNCHANGED <<mode, strategy_mode, config, clock, date, last_reset_date,
                   position, entry_price, trailing_sl, highest_profit, ltp,
                   daily_pnl, daily_trades, halted, pend, sig, exit_fills,
                   entry_fill>>
    /\ UNCHANGED compVars

\* stop(): running = False and task.cancel()
Stop ==
    /\ running
    /\ LoopYielded
    /\ running' = FALSE
    /\ UNCHANGED <<pc, mode, strategy_mode, config, clock, date,
                   last_reset_date, position, entry_price, trailing_sl,
                   highest_profit, ltp, daily_pnl, daily_trades, halted,
                   pend, sig, exit_fills, entry_fill, phases>>
    /\ UNCHANGED compVars

\* the CancelledError raised at the await the task is suspended in
LoopCancelled ==
    /\ ~running
    /\ pc \in SuspensionPoints
    /\ pc' = "idle"
    /\ pend' = NoPend
    /\ sig' = None
    /\ phases' = <<>>
    /\ UNCHANGED <<running, mode, strategy_mode, config, clock, date,
                   last_reset_date, position, entry_price, trailing_sl,
                   highest_profit, ltp, daily_pnl, daily_trades, halted,
                   exit_fills, entry_fill>>
    /\ UNCHANGED compVars

\* ------------------------------------------------------- configuration
\* update_config_values with one risk knob, or with a strategy mode (set,
\* then overwritten by apply_strategy_config)
apply_strategy_config(m) == "st_macd_hist"

UpdateConfig ==
    /\ LoopYielded
    /\ \E c \in ConfigDomain : config' = c
    /\ \E m \in {None} \cup {Some(x) : x \in StrategyModes} :
          strategy_mode' = IF m = None THEN strategy_mode
                           ELSE apply_strategy_config(Val(m))
    /\ UNCHANGED <<running, pc, mode, clock, date, last_reset_date, position,
                   entry_price, trailing_sl, highest_profit, ltp, daily_pnl,
                   daily_trades, halted, pend, sig, exit_fills, entry_fill,
                   phases>>
    /\ UNCHANGED compVars

\* set_trading_mode
SetTradingMode ==
    /\ LoopYielded
    /\ position = None
    /\ \E m \in {"paper", "live"} : m # mode /\ mode' = m
    /\ UNCHANGED <<running, pc, strategy_mode, config, clock, date,
                   last_reset_date, position, entry_price, trailing_sl,
                   highest_profit, ltp, daily_pnl, daily_trades, halted,
                   pend, sig, exit_fills, entry_fill, phases>>
    /\ UNCHANGED compVars

\* wall-clock time passes
ClockAdvance ==
    /\ LoopYielded
    /\ IF clock < Len(ClockTimes)
       THEN clock' = clock + 1 /\ date' = date
       ELSE date < MaxDays /\ clock' = 1 /\ date' = date + 1
    /\ UNCHANGED <<running, pc, mode, strategy_mode, config, last_reset_date,
                   position, entry_price, trailing_sl, highest_profit, ltp,
                   daily_pnl, daily_trades, halted, pend, sig, exit_fills,
                   entry_fill, phases>>
    /\ UNCHANGED compVars

\* ------------------------------------------------------------ the loop
\* top of an iteration: daily reset, auto square-off, halt check
LoopTop ==
    /\ running
    /\ pc = "top"
    /\ LET reset == IsResetMinute(Now) /\ last_reset_date # date
           dp == IF reset THEN 0 ELSE daily_pnl
           h == IF reset THEN FALSE ELSE halted
       IN  /\ daily_trades' = IF reset THEN 0 ELSE daily_trades
           /\ last_reset_date' = IF reset THEN date ELSE last_reset_date
           /\ IF should_force_squareoff(Now) /\ position # None
              THEN \E ok1 \in BrokerAnswers : \E ok2 \in SecondAnswers(ok1) :
                      SquareoffFrom(ok1, ok2, dp, h)
              ELSE /\ daily_pnl' = dp
                   /\ halted' = h
                   /\ UNCHANGED <<position, entry_price, trailing_sl,
                                  highest_profit, exit_fills, entry_fill>>
    /\ pc' = IF halted' THEN "sleep" ELSE "fetch"
    /\ phases' = <<>>
    /\ UNCHANGED <<running, mode, strategy_mode, config, clock, date, ltp,
                   pend, sig>>
    /\ UNCHANGED compVars

\* the sleep (or broadcast) the task was suspended in returns
LoopWake ==
    /\ running
    /\ pc \in SuspensionPoints
    /\ pc' = "top"
    /\ UNCHANGED <<running, mode, strategy_mode, config, clock, date,
                   last_reset_date, position, entry_price, trailing_sl,
                   highest_profit, ltp, daily_pnl, daily_trades, halted,
                   pend, sig, exit_fills, entry_fill, phases>>
    /\ UNCHANGED compVars

\* market data: the held contract's last price, kept when the quote is 0
Fetch ==
    /\ pc = "fetch"
    /\ \E q \in Quotes :
          ltp' = IF position # None /\ q > 0 THEN q ELSE ltp
    /\ pc' = "tick"
    /\ UNCHANGED <<running, mode, strategy_mode, config, clock, date,
                   last_reset_date, position, entry_price, trailing_sl,
                   highest_profit, daily_pnl, daily_trades, halted, pend,
                   sig, exit_fills, entry_fill, phases>>
    /\ UNCHANGED compVars

\* a quote call raises: except Exception, sleep(5), next iteration
FetchError ==
    /\ pc = "fetch"
    /\ pc' = "sleep"
    /\ UNCHANGED <<running, mode, strategy_mode, config, clock, date,
                   last_reset_date, position, entry_price, trailing_sl,
                   highest_profit, ltp, daily_pnl, daily_trades, halted,
                   pend, sig, exit_fills, entry_fill, phases>>
    /\ UNCHANGED compVars

FirstTriggerTargetFirst(daily, trade, target, stop) ==
    IF target THEN "Target Hit"
    ELSE IF daily THEN "Daily Max Loss"
    ELSE IF trade THEN "Max Loss Per Trade"
    ELSE IF stop THEN "Trailing SL Hit"
    ELSE "none"

\* check_tick_sl: which trigger closes, given which conditions hold
FirstTrigger(daily, trade, target, stop) ==
    IF daily THEN "Daily Max Loss"
    ELSE IF trade THEN "Max Loss Per Trade"
    ELSE IF target THEN "Target Hit"
    ELSE IF stop THEN "Trailing SL Hit"
    ELSE "none"

DailyCapHit(cur) ==
    /\ config.daily_max_loss > 0
    /\ daily_pnl + (cur - entry_price) * Qty < -config.daily_max_loss

TradeCapHit(cur) ==
    /\ config.max_loss_per_trade > 0
    /\ (cur - entry_price) * Qty < -config.max_loss_per_trade

TargetHit(cur) ==
    /\ config.target_points > 0
    /\ cur - entry_price >= config.target_points

StopHit(sl, cur) == Truthy(sl) /\ cur <= Val(sl)

AfterTickExitFallThrough == "candle"

\* after a tick exit: reset the candle, sleep(1), continue
AfterTickExit == "sleep"

TickCheck ==
    /\ pc = "tick"
    /\ IF position # None /\ ltp > 0
       THEN LET early == DailyCapHit(ltp) \/ TradeCapHit(ltp) \/ TargetHit(ltp)
                tr == IF early
                      THEN [sl |-> trailing_sl, hp |-> highest_profit]
                      ELSE UpdateTrailing(ltp)
                reason == FirstTrigger(DailyCapHit(ltp), TradeCapHit(ltp),
                                       TargetHit(ltp), StopHit(tr.sl, ltp))
            IN  /\ trailing_sl' = tr.sl
                /\ highest_profit' = tr.hp
                /\ IF reason # "none"
                   THEN /\ pend' = CloseCall(reason, reason = "Daily Max Loss",
                                             AfterTickExit)
                        /\ pc' = "closing"
                        /\ phases' = Append(phases, "tick_exit")
                   ELSE /\ pc' = "candle"
                        /\ phases' = Append(phases, "tick")
                        /\ UNCHANGED pend
       ELSE /\ pc' = "candle"
            /\ UNCHANGED <<trailing_sl, highest_profit, pend, phases>>
    /\ UNCHANGED <<running, mode, strategy_mode, config, clock, date,
                   last_reset_date, position, entry_price, ltp, daily_pnl,
                   daily_trades, halted, sig, exit_fills, entry_fill>>
    /\ UNCHANGED compVars

\* candle not complete yet: on to preview, broadcast and sleep
CandleOpen ==
    /\ pc = "candle"
    /\ pc' = "sleep"
    /\ phases' = <<>>
    /\ UNCHANGED <<running, mode, strategy_mode, config, clock, date,
                   last_reset_date, position, entry_price, trailing_sl,
                   highest_profit, ltp, daily_pnl, daily_trades, halted,
                   pend, sig, exit_fills, entry_fill>>
    /\ UNCHANGED compVars

\* candle close, first part: check_trailing_sl_on_close
CandleCloseCheck ==
    /\ pc = "candle"
    /\ IF position # None
       THEN IF TargetHit(ltp)
            THEN /\ pend' = CloseCall("Target Hit", FALSE, "cc_exit")
                 /\ pc' = "closing"
                 /\ UNCHANGED <<trailing_sl, highest_profit>>
            ELSE LET tr == UpdateTrailing(ltp)
                 IN  /\ trailing_sl' = tr.sl
                     /\ highest_profit' = tr.hp
                     /\ IF StopHit(tr.sl, ltp)
                        THEN /\ pend' = CloseCall("Trailing SL Hit", FALSE,
                                                  "cc_exit")
                             /\ pc' = "closing"
                        ELSE pc' = "cc_exit" /\ UNCHANGED pend
       ELSE /\ pc' = "cc_exit"
            /\ UNCHANGED <<trailing_sl, highest_profit, pend>>
    /\ phases' = Append(phases, "close_check")
    /\ UNCHANGED <<running, mode, strategy_mode, config, clock, date,
                   last_reset_date, position, entry_price, ltp, daily_pnl,
                   daily_trades, halted, sig, exit_fills, entry_fill>>
    /\ UNCHANGED compVars

\* candle close, second part: the held contract's indicators (direction
\* dir, band value val) give the reversal exit or anchor the stop
BandAnchorAssign(sl, val) == val

BandAnchor(sl, val) ==
    IF sl = None THEN val ELSE Some(Max(Val(sl), Val(val)))

CandleExitEval ==
    /\ pc = "cc_exit"
    /\ \E dir \in {1, -1} : \E val \in StVals :
          /\ dir = -1 => val # None
          /\ IF position # None /\ dir = -1
             THEN /\ pend' = CloseCall("SuperTrend Reversal", FALSE, "cc_entry")
                  /\ pc' = "closing"
                  /\ UNCHANGED <<trailing_sl, highest_profit>>
             ELSE IF position # None /\ val # None
             THEN LET tr == ApplyProfitLock(position, entry_price,
                                            BandAnchor(trailing_sl, val),
                                            highest_profit, ltp)
                  IN  /\ trailing_sl' = tr.sl
                      /\ highest_profit' = tr.hp
                      /\ pc' = "cc_entry"
                      /\ UNCHANGED pend
             ELSE /\ pc' = "cc_entry"
                  /\ UNCHANGED <<trailing_sl, highest_profit, pend>>
    /\ phases' = Append(phases, "exit_eval")
    /\ UNCHANGED <<running, mode, strategy_mode, config, clock, date,
                   last_reset_date, position, entry_price, ltp, daily_pnl,
                   daily_trades, halted, sig, exit_fills, entry_fill>>
    /\ UNCHANGED compVars

\* candle close, third part: pick the contract to enter; a Position of the
\* other kind is closed first ("Reverse Entry")
EntryAllowed ==
    can_take_new_trade(Now) /\ daily_trades < MaxTradesPerDay

ReverseNever(t) == FALSE

\* "If a trade is active on the opposite side, close it first."
ReverseFirst(t) ==
    position # None /\ Val(position).option_type # t /\ ltp > 0

CandleEntrySelect ==
    /\ pc = "cc_entry"
    /\ \/ /\ pc' = "sleep"
          /\ phases' = <<>>
          /\ UNCHANGED <<pend, sig>>
       \/ /\ EntryAllowed
          /\ \E t \in OptionTypes : \E stv \in StVals :
                /\ sig' = Some([option_type |-> t, st_value |-> stv])
                /\ IF ReverseFirst(t)
                   THEN /\ pend' = CloseCall("Reverse Entry", FALSE, "cc_enter")
                        /\ pc' = "closing"
                   ELSE pc' = "cc_enter" /\ UNCHANGED pend
          /\ UNCHANGED phases
    /\ UNCHANGED <<running, mode, strategy_mode, config, clock, date,
                   last_reset_date, position, entry_price, trailing_sl,
                   highest_profit, ltp, daily_pnl, daily_trades, halted,
                   exit_fills, entry_fill>>
    /\ UNCHANGED compVars

EntryGuardAlways == TRUE

\* is the entry made?  (the guard in front of enter_position)
EntryGuard == position = None

\* candle close, fourth part: enter_position up to its order
CandleEnter ==
    /\ pc = "cc_enter"
    /\ IF ~EntryGuard
       THEN /\ pc' = "sleep"
            /\ sig' = None
            /\ phases' = <<>>
            /\ UNCHANGED <<trailing_sl, pend>>
       ELSE IF ~is_within_trading_hours(Now, date)
       THEN /\ pc' = "sleep"
            /\ sig' = None
            /\ trailing_sl' = IF Val(sig).st_value # None
                              THEN Val(sig).st_value ELSE trailing_sl
            /\ phases' = <<>>
            /\ UNCHANGED pend
       ELSE /\ \E q \in Quotes : pend' = EnterCall(q)
            /\ pc' = "entering"
            /\ phases' = Append(phases, "entry")
            /\ UNCHANGED <<trailing_sl, sig>>
    /\ UNCHANGED <<running, mode, strategy_mode, config, clock, date,
                   last_reset_date, position, entry_price, highest_profit,
                   ltp, daily_pnl, daily_trades, halted, exit_fills,
                   entry_fill>>
    /\ UNCHANGED compVars

\* ------------------------------------------------- orders and their effect
\* dhan.place_order(security_id, "SELL", qty) inside close_position
ClosePlaceOrder ==
    /\ pc = "closing"
    /\ mode = "live"
    /\ ~pend.sent
    /\ pend' = [pend EXCEPT !.sent = TRUE]
    /\ UNCHANGED <<running, pc, mode, strategy_mode, config, clock, date,
                   last_reset_date, position, entry_price, trailing_sl,
                   highest_profit, ltp, daily_pnl, daily_trades, halted,
                   sig, exit_fills, entry_fill, phases>>
    /\ UNCHANGED compVars

\* the rest of close_position and of its caller
CloseFinish ==
    /\ pc = "closing"
    /\ mode = "paper" \/ pend.sent
    /\ \E ok \in (IF mode = "paper" THEN {TRUE} ELSE BrokerAnswers) :
          IF ok
          THEN /\ CloseApplied(ltp, pend.latch)
               /\ exit_fills' = IF mode = "live" THEN exit_fills + 1
                                ELSE exit_fills
               /\ entry_fill' = "NONE"
          ELSE /\ CloseRefused(pend.latch)
               /\ UNCHANGED <<exit_fills, entry_fill>>
    /\ pc' = pend.ret
    /\ pend' = NoPend
    /\ phases' = IF pend.ret = "sleep" THEN <<>> ELSE phases
    /\ UNCHANGED <<running, mode, strategy_mode, config, clock, date,
                   last_reset_date, ltp, daily_trades, sig>>
    /\ UNCHANGED compVars

\* dhan.place_order(security_id, "BUY", qty) inside enter_position
EnterPlaceOrder ==
    /\ pc = "entering"
    /\ mode = "live"
    /\ ~pend.sent
    /\ pend' = [pend EXCEPT !.sent = TRUE]
    /\ UNCHANGED <<running, pc, mode, strategy_mode, config, clock, date,
                   last_reset_date, position, entry_price, trailing_sl,
                   highest_profit, ltp, daily_pnl, daily_trades, halted,
                   sig, exit_fills, entry_fill, phases>>
    /\ UNCHANGED compVars

EntryNotCounted(n) == n

\* bot_state['daily_trades'] += 1
EntryCounted(n) == n + 1

\* the rest of enter_position, then the caller's "initial SL = band value"
EnterFinish ==
    /\ pc = "entering"
    /\ mode = "paper" \/ pend.sent
    /\ \E ok \in (IF mode = "paper" THEN {TRUE} ELSE BOOLEAN) :
       \E fill \in (IF mode = "paper" THEN {"SIM"} ELSE FillOutcomes) :
       \E sim \in Prices :
          LET price == IF pend.quote > 0 THEN pend.quote
                       ELSE IF mode = "paper" THEN sim ELSE 0
              stv == Val(sig).st_value
          IN  IF ok
              THEN /\ position' = Some([option_type |-> Val(sig).option_type])
                   /\ entry_price' = price
                   /\ trailing_sl' = stv
                   /\ highest_profit' = 0
                   /\ daily_trades' = EntryCounted(daily_trades)
                   /\ ltp' = price
                   /\ exit_fills' = 0
                   /\ entry_fill' = fill
              ELSE /\ trailing_sl' = IF stv # None THEN stv ELSE trailing_sl
                   /\ UNCHANGED <<position, entry_price, highest_profit,
                                  daily_trades, ltp, exit_fills, entry_fill>>
    /\ pc' = "sleep"
    /\ pend' = NoPend
    /\ sig' = None
    /\ phases' = <<>>
    /\ UNCHANGED <<running, mode, strategy_mode, config, clock, date,
                   last_reset_date, daily_pnl, halted>>
    /\ UNCHANGED compVars

\* ------------------------------------------------------------------ Next
Next ==
    \/ Start
    \/ Stop
    \/ LoopCancelled
    \/ Squareoff
    \/ UpdateConfig
    \/ SetTradingMode
    \/ ClockAdvance
    \/ LoopTop
    \/ LoopWake
    \/ Fetch
    \/ FetchError
    \/ TickCheck
    \/ CandleOpen
    \/ CandleCloseCheck
    \/ CandleExitEval
    \/ CandleEntrySelect
    \/ CandleEnter
    \/ ClosePlaceOrder
    \/ CloseFinish
    \/ EnterPlaceOrder
    \/ EnterFinish

Spec == Init /\ [][Next]_vars

\* the same machine started in the step-trailing mode ("agent") as well,
\* so that both stop-update functions are exercised
RiskInit ==
    /\ CompInit
    /\ running = FALSE
    /\ pc = "idle"
    /\ mode = "paper"
    /\ strategy_mode \in {"agent", "st_macd_hist"}
    /\ config \in ConfigDomain
    /\ clock = 1
    /\ date = 1
    /\ last_reset_date = 0
    /\ position = None
    /\ entry_price = 0
    /\ trailing_sl = None
    /\ highest_profit = 0
    /\ ltp = 0
    /\ daily_pnl = 0
    /\ daily_trades = 0
    /\ halted = FALSE
    /\ pend = NoPend
    /\ sig = None
    /\ exit_fills = 0
    /\ entry_fill = "NONE"
    /\ phases = <<>>

RiskSpec == RiskInit /\ [][Next]_vars

\* a pending cancellation is delivered: the event loop runs the cancelled
\* task at its next turn
FairSpec == Spec /\ WF_vars(LoopCancelled)

\* ====================================================== strategy_agent.py
\* The decision agent of the replay (backend/backtest.py).  MACD values are
\* counted in units of 0.025 and ADX in whole points, so that the reset
\* threshold 0.05 and the ADX floor 20.0 are integers.
MaxMacd == 2

adx_min == 20

wave_reset_macd_abs == 2

Abs(x) == IF x >= 0 THEN x ELSE -x

EnterActions == {"ENTER_CE", "ENTER_PE"}

AgentAction == EnterActions \cup {"EXIT", "HOLD"}

MacdVals == {None} \cup {Some(v) : v \in (-MaxMacd)..MaxMacd}

AdxVals == {None, Some(adx_min - 1), Some(adx_min)}

Directions == {None, Some(1), Some(-1)}

\* the AgentInputs the replay builds: in_position = bool(position_side),
\* current_position_side = position_side
AgentInputs ==
    {in \in [supertrend_direction : Directions,
             supertrend_flipped : BOOLEAN,
             adx_value : AdxVals,
             macd_current : MacdVals,
             macd_previous : MacdVals,
             in_position : BOOLEAN,
             current_position_side : {None, Some("CE"), Some("PE")}] :
        in.in_position <=> in.current_position_side # None}

Ret(a, ag) == [action |-> a, agent |-> ag]

\* the wave-lock reset at the top of decide
WaveResetNever(lock, macd) == lock

WaveReset(lock, macd) ==
    IF lock /\ macd # None /\ Abs(Val(macd)) < wave_reset_macd_abs
    THEN FALSE
    ELSE lock

LockOnEnterLeft(lock) == lock

LockOnEnter(lock) == TRUE

Entered(a, side, ag) ==
    Ret(a, [wave_lock |-> LockOnEnter(ag.wave_lock),
            last_trade_side |-> Some(side)])

AdxGateOpen(adx) == FALSE

AdxGate(adx) == adx < adx_min

\* decide, branch "if not inputs.in_position"
FlatRules(ag, in) ==
    LET mc == Val(in.macd_current)
        mp == Val(in.macd_previous)
    IN  IF ag.wave_lock THEN Ret("HOLD", ag)
        ELSE IF ~in.supertrend_flipped THEN Ret("HOLD", ag)
        ELSE IF AdxGate(Val(in.adx_value)) THEN Ret("HOLD", ag)
        ELSE IF in.supertrend_direction = Some(1)
        THEN IF mc > 0 /\ mc > mp
             THEN Entered("ENTER_CE", "CE", ag)
             ELSE Ret("HOLD", ag)
        ELSE IF in.supertrend_direction = Some(-1)
        THEN IF mc < 0 /\ mc < mp
             THEN Entered("ENTER_PE", "PE", ag)
             ELSE Ret("HOLD", ag)
        ELSE Ret("HOLD", ag)

\* trade_side = self.last_trade_side or inputs.current_position_side
TradeSide(ag, in) ==
    IF ag.last_trade_side # None
    THEN ag.last_trade_side
    ELSE in.current_position_side

\* decide, the in-position rules
HeldRules(ag, in) ==
    LET mc == Val(in.macd_current)
        mp == Val(in.macd_previous)
        trade_side == TradeSide(ag, in)
    IN  IF in.supertrend_flipped THEN Ret("EXIT", ag)
        ELSE IF trade_side = Some("CE") /\ mc < mp THEN Ret("EXIT", ag)
        ELSE IF trade_side = Some("PE") /\ mc > mp THEN Ret("EXIT", ag)
        ELSE Ret("HOLD", ag)

decide(ag, in) ==
    LET a1 == [ag EXCEPT !.wave_lock = WaveReset(ag.wave_lock, in.macd_current)]
    IN  IF in.supertrend_direction \notin {Some(1), Some(-1)}
        THEN Ret("HOLD", a1)
        ELSE IF \/ in.adx_value = None
                \/ in.macd_current = None
                \/ in.macd_previous = None
        THEN Ret("HOLD", a1)
        ELSE IF ~in.in_position
        THEN FlatRules(a1, in)
        ELSE HeldRules(a1, in)

SmallMacd(in) ==
    in.macd_current # None /\ Abs(Val(in.macd_current)) < wave_reset_macd_abs

\* one candle of the replay handed to the agent
Decide ==
    /\ call = None
    /\ \E in \in AgentInputs :
          LET r == decide(agent, in)
          IN  /\ agent' = r.agent
              /\ call' = Some([inputs |-> in,
                               locked |-> agent.wave_lock,
                               action |-> r.action])
              /\ entered_wave' = IF r.action \in EnterActions THEN TRUE
                                 ELSE IF SmallMacd(in) THEN FALSE
                                 ELSE entered_wave
    /\ UNCHANGED <<loopVars, cfgVars, trailVars, entryVars, stVars, btVars>>

\* the replay applies the action and moves to the next candle; the inputs
\* and the action of this candle are gone
EndCandle ==
    /\ call # None
    /\ call' = None
    /\ UNCHANGED <<agent, entered_wave, loopVars, cfgVars, trailVars, entryVars, stVars, btVars>>

\* STAdxMacdAgent.reset_session: a new session starts unlocked
ResetSession ==
    /\ call = None
    /\ agent' = [wave_lock |-> FALSE, last_trade_side |-> None]
    /\ entered_wave' = FALSE
    /\ UNCHANGED <<call, loopVars, cfgVars, trailVars, entryVars, stVars, btVars>>

\* the live loop stays as constructed while the replay runs
LoopIdle ==
    /\ running = FALSE
    /\ pc = "idle"
    /\ mode = "paper"
    /\ strategy_mode = "st_macd_hist"
    /\ config = RiskConfig(0, 0, 0, 0, 0, 1, 3)
    /\ clock = 1
    /\ date = 1
    /\ last_reset_date = 0
    /\ position = None
    /\ entry_price = 0
    /\ trailing_sl = None
    /\ highest_profit = 0
    /\ ltp = 0
    /\ daily_pnl = 0
    /\ daily_trades = 0
    /\ halted = FALSE
    /\ pend = NoPend
    /\ sig = None
    /\ exit_fills = 0
    /\ entry_fill = "NONE"
    /\ phases = <<>>

AgentNext ==
    \/ Decide
    \/ EndCandle
    \/ ResetSession

AgentStart == LoopIdle /\ CompInit

AgentSpec == AgentStart /\ [][AgentNext]_vars

DecideStep == call = None /\ call' # None

In == Val(call').inputs

Act == Val(call').action

AllAvailable(in) ==
    /\ in.supertrend_direction \in {Some(1), Some(-1)}
    /\ in.adx_value # None
    /\ in.macd_current # None
    /\ in.macd_previous # None

\* ================================== trading_bot.py: entry eligibility
\* The slope + band entry condition of a tracked option contract.  MACD
\* histogram values are counted in units of 0.25, so that the band ends 0.5
\* and 1.25 are integers.
MaxHist == 6

HistWindowLen == 3

hist_band_low == 2

hist_band_high == 5

HistVals == 0..MaxHist

\* deque(maxlen=3).append
DequeAppend(w, h) ==
    IF Len(w) < HistWindowLen THEN Append(w, h) ELSE Append(Tail(w), h)

BandOutsideInclusive(h3) == h3 < hist_band_low \/ h3 > hist_band_high

BandOutside(h3) == h3 <= hist_band_low \/ h3 >= hist_band_high

entry_conditions_met(st_direction, hw) ==
    IF st_direction # Some(1) THEN FALSE
    ELSE IF Len(hw) < 3 THEN FALSE
    ELSE LET h1 == hw[Len(hw) - 2]
             h2 == hw[Len(hw) - 1]
             h3 == hw[Len(hw)]
         IN  IF ~(h1 < h2 /\ h2 < h3) THEN FALSE
             ELSE IF BandOutside(h3) THEN FALSE
             ELSE TRUE

\* one closed candle of a tracked contract: the histogram, when the MACD
\* has one, joins the window; then eligibility is evaluated
TrackerCandle ==
    /\ \E hist \in {None} \cup {Some(h) : h \in HistVals} :
       \E dir \in Directions :
          LET hw == IF hist = None THEN hist_window
                    ELSE DequeAppend(hist_window, Val(hist))
          IN  /\ hist_window' = hw
              /\ entry_met' = Some([st_direction |-> dir,
                                    ok |-> entry_conditions_met(dir, hw)])
    /\ UNCHANGED <<sel, uni, loopVars, cfgVars, trailVars, agentVars, stVars, btVars>>

\* reset_indicator clears the window, the universe and its trackers
ResetIndicator ==
    /\ hist_window' = <<>>
    /\ entry_met' = None
    /\ uni' = NoUniverse
    /\ UNCHANGED <<sel, loopVars, cfgVars, trailVars, agentVars, stVars, btVars>>

EntryNext ==
    \/ TrackerCandle
    \/ ResetIndicator

EntryStart == LoopIdle /\ CompInit

EntrySpec == EntryStart /\ [][EntryNext]_vars

\* ------------------------------------------ the entry choice (band mode)
\* Strikes are counted in strike intervals.
MaxStrike == 4

PickNearestHigher(cands, center) ==
    IF cands = {} THEN None
    ELSE Some(CHOOSE x \in cands : \A y \in cands :
                 \/ Abs(x - center) < Abs(y - center)
                 \/ Abs(x - center) = Abs(y - center) /\ x >= y)

\* _pick_nearest: the first of sorted(cands, key=(abs(strike - center), strike))
pick_nearest(cands, center) ==
    IF cands = {} THEN None
    ELSE Some(CHOOSE x \in cands : \A y \in cands :
                 \/ Abs(x - center) < Abs(y - center)
                 \/ Abs(x - center) = Abs(y - center) /\ x <= y)

\* "ENTRY: choose eligible contract nearest to current ATM": CE if any
SelectEntry ==
    /\ ~sel.done
    /\ LET cs == pick_nearest(sel.eligible_ce, sel.center)
           ps == pick_nearest(sel.eligible_pe, sel.center)
       IN  sel' = [sel EXCEPT
                      !.done = TRUE,
                      !.chosen =
                          IF cs # None
                          THEN Some([option_type |-> "CE", strike |-> Val(cs)])
                          ELSE IF ps # None
                          THEN Some([option_type |-> "PE", strike |-> Val(ps)])
                          ELSE None]
    /\ UNCHANGED <<hist_window, entry_met, uni, loopVars, cfgVars, trailVars, agentVars, stVars,
                   btVars>>

\* a candle close with any eligible trackers around any ATM strike
SelectStart ==
    /\ LoopIdle
    /\ CfgInit
    /\ TrailInit
    /\ AgentInit
    /\ hist_window = <<>>
    /\ entry_met = None
    /\ uni = NoUniverse
    /\ StInit(2)
    /\ BtInit(BtParam(0, 0, 0, 0))
    /\ \E ce \in SUBSET (1..MaxStrike) : \E pe \in SUBSET (1..MaxStrike) :
       \E center \in 1..MaxStrike :
          sel = [eligible_ce |-> ce, eligible_pe |-> pe, center |-> center,
                 done |-> FALSE, chosen |-> None]

SelectSpec == SelectStart /\ [][SelectEntry]_vars

\* --------------------------------------------- the option universe
\* Strikes are counted in strike intervals, security ids are positive
\* numbers and 0 is the empty id the broker gives for a contract it cannot
\* resolve.  warm says the tracker's indicators have seen a candle since
\* they were built or reset.
UniSteps == 1

\* what the broker may answer for the two contracts of one strike
SidAnswers ==
    {[CE |-> 0, PE |-> 0], [CE |-> 1, PE |-> 0], [CE |-> 1, PE |-> 1],
     [CE |-> 2, PE |-> 1]}

MaxExpiry == 2

\* _build_strike_universe, as the set the sorted list holds
build_strike_universe(center_strike, steps) ==
    LET n == IF steps < 0 THEN 0 ELSE steps
    IN  {center_strike + i : i \in (-n)..n}

\* _get_or_create_option_tracker when the key is new
new_tracker(expiry) ==
    [security_id |-> 0, expiry |-> expiry, warm |-> FALSE]

\* the binding of a tracker to its security id; _reset_tracker_state when
\* the id or the expiry is not the one it had
bind_tracker(t, sid, expiry) ==
    IF t.security_id # sid \/ t.expiry # expiry
    THEN [security_id |-> sid, expiry |-> expiry, warm |-> FALSE]
    ELSE t

\* every tracker survives the rebuild
SurvivorsAll(trackers, expected_keys) == trackers

\* the trackers left once those outside the new universe are deleted
Survivors(trackers, expected_keys) ==
    [k \in (DOMAIN trackers) \cap expected_keys |-> trackers[k]]

\* _ensure_option_universe with steps > 0 and a broker client.  index_ltp
\* is the index price on a strike (0: no price); sids is what the broker
\* answers for the strikes of the band.
EnsureUniverse ==
    /\ \E index_ltp \in {0} \cup ((UniSteps + 1)..(MaxStrike - UniSteps)),
          expiry \in 1..MaxExpiry :
          LET strikes == build_strike_universe(index_ltp, UniSteps)
          IN  IF index_ltp <= 0
              THEN UNCHANGED uni
              ELSE IF /\ uni.center = Some(index_ltp)
                      /\ uni.expiry = Some(expiry)
                      /\ DOMAIN uni.contracts = strikes
              THEN UNCHANGED uni
              ELSE \E sids \in [strikes -> SidAnswers] :
                 \E new_contracts \in
                         {[x \in {y \in strikes :
                                     sids[y].CE # 0 \/ sids[y].PE # 0}
                              |-> sids[x]]} :
                 \E expected_keys \in
                         {{k \in (DOMAIN new_contracts) \X {"CE", "PE"} :
                              new_contracts[k[1]][k[2]] # 0}} :
                 \E kept \in {Survivors(uni.trackers, expected_keys)} :
                 LET trackers ==
                         [k \in (DOMAIN kept) \cup expected_keys |->
                             IF k \in expected_keys
                             THEN bind_tracker(
                                      IF k \in DOMAIN kept THEN kept[k]
                                      ELSE new_tracker(expiry),
                                      new_contracts[k[1]][k[2]], expiry)
                             ELSE kept[k]]
                 IN  IF DOMAIN new_contracts = {}
                     THEN UNCHANGED uni
                     ELSE uni' = [center |-> Some(index_ltp),
                                  expiry |-> Some(expiry),
                                  contracts |-> new_contracts,
                                  trackers |-> trackers,
                                  resolved |-> sids]
    /\ UNCHANGED <<hist_window, entry_met, sel, loopVars, cfgVars, trailVars, agentVars, stVars,
                   btVars>>

\* a closed candle of one tracked contract reaches its indicators
FeedTracker ==
    /\ \E k \in DOMAIN uni.trackers :
          /\ ~uni.trackers[k].warm
          /\ uni' = [uni EXCEPT !.trackers[k].warm = TRUE]
    /\ UNCHANGED <<hist_window, entry_met, sel, loopVars, cfgVars, trailVars, agentVars, stVars,
                   btVars>>

UniverseStart == LoopIdle /\ CompInit

UniverseSpec ==
    UniverseStart /\ [][EnsureUniverse \/ FeedTracker \/ ResetIndicator]_vars

\* ========================================================= indicators.py
\* SuperTrend.  Prices are integer ticks; the two divisions of add_candle
\* (ATR, hl2) round down to the tick.  The history cap, 100 in the source,
\* is scaled to HistoryCap.
MaxTick == 2

HistoryCap == 3

MaxCandles == 6

Ticks == 1..MaxTick

Candles ==
    {c \in [high : Ticks, low : Ticks, close : Ticks] :
        c.low <= c.close /\ c.close <= c.high}

\* config['supertrend_period'] is any int the configuration update is given
Periods == {2, HistoryCap + 2}

Last(q) == q[Len(q)]

LastN(q, n) == IF Len(q) <= n THEN q ELSE SubSeq(q, Len(q) - n + 1, Len(q))

Max3(a, b, c) == Max(a, Max(b, c))

TrueRange(c, prev_close) ==
    Max3(c.high - c.low, Abs(c.high - prev_close), Abs(c.low - prev_close))

RECURSIVE SumTr(_, _, _)
\* the TRs of candles i..j (1-based), as the initial-ATR loop adds them
SumTr(cs, i, j) ==
    IF i > j THEN 0
    ELSE (IF i > 1 THEN TrueRange(cs[i], cs[i - 1].close)
                   ELSE cs[i].high - cs[i].low)
         + SumTr(cs, i + 1, j)

InitialAtr(cs, period) ==
    LET first == Max(0, Len(cs) - period) + 1
        n == Len(cs) - first + 1
    IN  IF n > 0 THEN SumTr(cs, first, Len(cs)) \div n ELSE 0

\* the direction of the first emitting candle
FirstDirection(close, final_upper) ==
    IF close > final_upper THEN 1 ELSE -1

Trimmed(q) == LastN(q, HistoryCap)

\* SuperTrend.add_candle; capped is FALSE for the uncut reference
add_candle(s, c, capped) ==
    LET cs == Append(s.candles, c)
    IN  IF Len(cs) < s.period
        THEN [obj |-> [s EXCEPT !.candles = cs], ret |-> NoValue]
        ELSE
        LET tr == IF Len(cs) > 1
                  THEN TrueRange(c, cs[Len(cs) - 1].close)
                  ELSE c.high - c.low
            atr == IF s.atr_values = <<>>
                   THEN InitialAtr(cs, s.period)
                   ELSE (Last(s.atr_values) * (s.period - 1) + tr) \div s.period
            hl2 == (c.high + c.low) \div 2
            basic_upper == hl2 + s.multiplier * atr
            basic_lower == hl2 - s.multiplier * atr
            first == s.supertrend_values = <<>>
            prev == Last(s.supertrend_values)
            prev_close == cs[Len(cs) - 1].close
            final_lower == IF first THEN basic_lower
                           ELSE IF \/ basic_lower > prev.lower
                                   \/ prev_close < prev.lower
                           THEN basic_lower
                           ELSE prev.lower
            final_upper == IF first THEN basic_upper
                           ELSE IF \/ basic_upper < prev.upper
                                   \/ prev_close > prev.upper
                           THEN basic_upper
                           ELSE prev.upper
            direction == IF first
                         THEN FirstDirection(c.close, final_upper)
                         ELSE IF prev.direction = 1
                         THEN (IF c.close < final_lower THEN -1 ELSE 1)
                         ELSE (IF c.close > final_upper THEN 1 ELSE -1)
            supertrend_value == IF direction = 1 THEN final_lower
                                ELSE final_upper
            atrs == Append(s.atr_values, atr)
            sts == Append(s.supertrend_values,
                          [upper |-> final_upper,
                           lower |-> final_lower,
                           value |-> supertrend_value,
                           direction |-> direction])
            cut == capped /\ Len(cs) > HistoryCap
        IN  [obj |-> [s EXCEPT
                        !.candles = IF cut THEN Trimmed(cs) ELSE cs,
                        !.atr_values = IF cut THEN Trimmed(atrs) ELSE atrs,
                        !.supertrend_values = IF cut THEN Trimmed(sts) ELSE sts,
                        !.direction = direction],
             ret |-> [value |-> Some(supertrend_value),
                      signal |-> Some(IF direction = 1 THEN "GREEN"
                                      ELSE "RED")]]

\* one closed candle of a tracked contract reaches its SuperTrend; the
\* tracker then reads the object's direction attribute
StCandle ==
    /\ Len(st_ref.candles) < MaxCandles
    /\ \E c \in Candles :
          LET r == add_candle(st, c, TRUE)
              u == add_candle(st_ref, c, FALSE)
              st_dir == r.obj.direction
          IN  /\ st' = r.obj
              /\ st_ret' = r.ret
              /\ st_ref' = u.obj
              /\ ref_ret' = u.ret
              /\ tracker' = [last_st_value |-> r.ret.value,
                             last_st_dir |-> IF st_dir \in {1, -1}
                                             THEN Some(st_dir) ELSE None]
    /\ UNCHANGED <<loopVars, cfgVars, trailVars, agentVars, entryVars, btVars>>

\* a tracker built with any configured period
StStart ==
    /\ LoopIdle
    /\ CfgInit
    /\ TrailInit
    /\ AgentInit
    /\ EntryInit
    /\ BtInit(BtParam(0, 0, 0, 0))
    /\ \E p \in Periods : StInit(p)

StSpec == StStart /\ [][StCandle]_vars

\* the candles fed so far
Fed == Len(st_ref.candles)

CandleStep == Len(st_ref'.candles) = Fed + 1

EmittedBand == Last(st'.supertrend_values)

ClosePrice == Last(st'.candles).close

\* =========================================================== backtest.py
\* The replay's position handling: risk exits simulated on the candle's
\* high/low before the strategy's action is applied at the close.  The
\* strategy (agent or flip baseline) is any action in BtSpec; ReplaySpec
\* below runs whole calls with the policy, the ledger and the equity curve.
MaxBtPrice == 3

MaxBtPoints == 2

BtPrices == 1..MaxBtPrice

BtCandles ==
    {c \in [high : BtPrices, low : BtPrices, close : BtPrices] :
        c.low <= c.close /\ c.close <= c.high}

BtParams ==
    {BtParam(sl, tgt, start, step) :
        sl \in 0..1, tgt \in 0..MaxBtPoints, start \in 0..1, step \in 0..1}

Min(a, b) == IF a <= b THEN a ELSE b

StopReasons == {"Stoploss Hit", "Trailing SL Hit"}

\* _calc_points_pnl
calc_points_pnl(side, entry, exit) ==
    IF side = "CE" THEN exit - entry ELSE entry - exit

ExitChoiceTargetFirst(stop_hit, reason, stop, target_hit, target) ==
    IF target_hit
    THEN [exit_reason |-> Some("Target Hit"), exit_price |-> Some(target)]
    ELSE IF stop_hit
    THEN [exit_reason |-> Some(reason), exit_price |-> stop]
    ELSE [exit_reason |-> None, exit_price |-> None]

\* worst-case priority: stop first, then target
ExitChoice(stop_hit, reason, stop, target_hit, target) ==
    IF stop_hit
    THEN [exit_reason |-> Some(reason), exit_price |-> stop]
    ELSE IF target_hit
    THEN [exit_reason |-> Some("Target Hit"), exit_price |-> Some(target)]
    ELSE [exit_reason |-> None, exit_price |-> None]

\* the RISK EXITS block for an open side at entry price entry
RiskExit(side, entry, best0, c, p) ==
    LET ce == side = "CE"
        best == IF ce THEN Max(best0, c.high - entry)
                ELSE Max(best0, entry - c.low)
        initial_stop_level ==
            IF p.initial_stoploss > 0
            THEN Some(IF ce THEN entry - p.initial_stoploss
                      ELSE entry + p.initial_stoploss)
            ELSE None
        trailing_level ==
            IF /\ p.trail_start_profit > 0
               /\ p.trail_step > 0
               /\ best >= p.trail_start_profit
            THEN LET steps == TruncDiv(best - p.trail_start_profit, p.trail_step)
                 IN  Some(IF ce THEN entry + steps * p.trail_step
                          ELSE entry - steps * p.trail_step)
            ELSE None
        effective_stop ==
            IF initial_stop_level # None /\ trailing_level # None
            THEN Some(IF ce THEN Max(Val(initial_stop_level), Val(trailing_level))
                      ELSE Min(Val(initial_stop_level), Val(trailing_level)))
            ELSE IF trailing_level # None THEN trailing_level
            ELSE initial_stop_level
        stop_hit ==
            /\ effective_stop # None
            /\ IF ce THEN c.low <= Val(effective_stop)
                ELSE c.high >= Val(effective_stop)
        stop_reason ==
            IF trailing_level # None /\ effective_stop = trailing_level
            THEN "Trailing SL Hit"
            ELSE "Stoploss Hit"
        target_price == IF ce THEN entry + p.target_points
                        ELSE entry - p.target_points
        target_hit ==
            /\ p.target_points > 0
            /\ IF ce THEN c.high >= target_price ELSE c.low <= target_price
        x == ExitChoice(stop_hit, stop_reason, effective_stop,
                        target_hit, target_price)
    IN  [best |-> best,
         effective_stop |-> effective_stop,
         target |-> IF p.target_points > 0 THEN Some(target_price) ELSE None,
         exit_reason |-> x.exit_reason,
         exit_price |-> x.exit_price]

Evaluated(b, c, r, reason, price) ==
    Some([side |-> Val(b.position_side),
          high |-> c.high,
          low |-> c.low,
          close |-> c.close,
          entry_price |-> b.entry_price,
          exit_price |-> price,
          effective_stop |-> r.effective_stop,
          target |-> r.target,
          exit_reason |-> reason,
          pnl_points |-> IF price = None THEN None
                         ELSE Some(calc_points_pnl(Val(b.position_side),
                                                   Val(b.entry_price),
                                                   Val(price)))])

EntryFillAtHigh(c) == c.high

\* entry_price = close
EntryFill(c) == c.close

\* the trade appended to the ledger by an entry on candle c
EntryRecorded(side, c) ==
    Some([side |-> side,
          high |-> c.high,
          low |-> c.low,
          close |-> c.close,
          entry_price |-> Some(EntryFill(c)),
          exit_price |-> None,
          effective_stop |-> None,
          target |-> None,
          exit_reason |-> None,
          pnl_points |-> None])

\* the loop body after warm-up for the position locals b: risk exits, then
\* the policy's action applied at the close
CandleRow(b, c, action, p, policy) ==
    IF b.position_side # None /\ b.entry_price # None
    THEN LET r == RiskExit(Val(b.position_side), Val(b.entry_price),
                           b.best_favorable_points, c, p)
         IN  IF r.exit_reason # None /\ r.exit_price # None
             THEN [bt |-> BtFlat, risk |-> TRUE,
                   eval |-> Evaluated(b, c, r, r.exit_reason, r.exit_price)]
             ELSE IF action = "EXIT"
             THEN [bt |-> BtFlat, risk |-> FALSE,
                   eval |-> Evaluated(b, c, r,
                                      Some(IF policy = "agent" THEN "Agent Exit"
                                           ELSE "Flip Exit"),
                                      Some(c.close))]
             ELSE [bt |-> [b EXCEPT !.best_favorable_points = r.best],
                   risk |-> FALSE,
                   eval |-> Evaluated(b, c, r, None, None)]
    ELSE IF action \in EnterActions
    THEN LET side == IF action = "ENTER_CE" THEN "CE" ELSE "PE"
         IN  [bt |-> [position_side |-> Some(side),
                      entry_price |-> Some(EntryFill(c)),
                      best_favorable_points |-> 0],
              risk |-> FALSE,
              eval |-> EntryRecorded(side, c)]
    ELSE [bt |-> b, risk |-> FALSE, eval |-> None]

\* one candle of the replay after warm-up, whatever the policy answers
BtCandle ==
    /\ \E c \in BtCandles : \E action \in AgentAction :
          LET r == CandleRow(bt, c, action, bt_params, "agent")
          IN  /\ bt' = r.bt
              /\ bt_eval' = r.eval
    /\ UNCHANGED <<bt_params, rp, rs, loopVars, cfgVars, trailVars, agentVars, entryVars, stVars>>

\* a replay started with any risk arguments
BtStart ==
    /\ LoopIdle
    /\ CfgInit
    /\ TrailInit
    /\ AgentInit
    /\ EntryInit
    /\ StInit(2)
    /\ \E p \in BtParams : BtInit(p)

BtSpec == BtStart /\ [][BtCandle]_vars

\* the candle's range reaches both the effective stop and the target
ReachesBoth(e) ==
    /\ e.effective_stop # None
    /\ e.target # None
    /\ IF e.side = "CE"
       THEN e.low <= Val(e.effective_stop) /\ e.high >= Val(e.target)
       ELSE e.high >= Val(e.effective_stop) /\ e.low <= Val(e.target)


\* ------------------------------------------------- run_backtest, whole calls
\* A call of run_backtest row by row.  The indicator objects are built by the
\* call; a row carries their answers for its candle.  Timestamps are copied
\* from the rows into the ledger and are left out.  Next to the call (run)
\* the same rows are replayed by a first call in a new process (ref).
MaxBtTrades == 2

\* strategy_mode as passed ("" stands for None/empty), risk arguments,
\* close_open_position_at_end
ReplayArgs ==
    [policy : {"agent", "supertrend", "", "st_macd_hist"},
     p : {BtParam(0, 0, 0, 0), BtParam(1, 1, 0, 0), BtParam(0, 0, 1, 1)},
     close_open_position_at_end : BOOLEAN]

\* rows: candle, SuperTrend ready or not and its direction, ADX and MACD
\* values (None while warming up)
ReplayRows ==
    {r \in [c : {c \in BtCandles : c.high < MaxBtPrice},
            st_ready : BOOLEAN,
            direction : {1, -1},
            adx_val : {None, Some(adx_min)},
            macd_val : {None, Some(-MaxMacd), Some(1), Some(MaxMacd)}] :
        /\ (~r.st_ready) => (r.direction = 1 /\ r.macd_val = None)
        /\ r.adx_val = None <=> r.macd_val = None}

StartLocalsKept(prev) ==
    [agent |-> IF prev = None
               THEN [wave_lock |-> FALSE, last_trade_side |-> None]
               ELSE prev[1].agent,
     bt |-> BtFlat,
     last_st_dir |-> None,
     last_macd |-> None,
     trades |-> <<>>,
     equity_curve |-> <<0>>,
     close |-> None]

\* the locals as run_backtest sets them up; nothing of an earlier call
\* (prev) is read
StartLocals(prev) ==
    [agent |-> [wave_lock |-> FALSE, last_trade_side |-> None],
     bt |-> BtFlat,
     last_st_dir |-> None,
     last_macd |-> None,
     trades |-> <<>>,
     equity_curve |-> <<0>>,
     close |-> None]

\* equity += pnl; equity_curve.append(equity); trades[-1].exit_... = ...
CloseTrade(L, price, pnl, reason) ==
    [L EXCEPT !.trades[Len(L.trades)] =
                  [@ EXCEPT !.exit_price = Some(price),
                            !.pnl_points = Some(pnl),
                            !.exit_reason = Some(reason)],
              !.equity_curve = Append(@, Last(@) + pnl)]

\* one pass of "for row in candles" on the locals L
ReplayRow(L, row, a) ==
    LET c == row.c
        st_dir == row.direction
        seen == [L EXCEPT !.close = Some(c.close)]
        policy == IF a.policy = "" THEN "agent" ELSE a.policy
    IN  IF ~row.st_ready \/ row.macd_val = None \/ row.adx_val = None
        THEN [seen EXCEPT
                 !.last_macd = IF row.macd_val # None THEN row.macd_val ELSE @,
                 !.last_st_dir = IF row.st_ready THEN Some(st_dir) ELSE @]
        ELSE LET flipped == L.last_st_dir # None /\ L.last_st_dir # Some(st_dir)
                 flat == L.bt.position_side = None
                 \* the ledger and the locals once the candle's outcome r of
                 \* the decision d is known
                 Booked(d, r, e) ==
                     [(IF flat /\ r.bt.position_side # None
                       THEN [seen EXCEPT !.trades =
                                Append(@, [side |-> e.side,
                                           entry_price |-> Val(e.entry_price),
                                           exit_price |-> None,
                                           pnl_points |-> None,
                                           exit_reason |-> None])]
                       ELSE IF ~flat /\ r.bt.position_side = None
                       THEN CloseTrade(seen, Val(e.exit_price),
                                       Val(e.pnl_points), Val(e.exit_reason))
                       ELSE seen)
                      EXCEPT !.bt = r.bt,
                             !.agent = IF r.risk THEN L.agent ELSE d.agent,
                             !.last_macd = row.macd_val,
                             !.last_st_dir = Some(st_dir)]
                 Evaluate(d, r) == Booked(d, r, Val(r.eval))
                 Decided(d) ==
                     Evaluate(d, CandleRow(L.bt, c, d.action, a.p, policy))
             IN  Decided(
                     IF policy = "agent"
                     THEN decide(L.agent,
                                 [supertrend_direction |-> Some(st_dir),
                                  supertrend_flipped |-> flipped,
                                  adx_value |-> row.adx_val,
                                  macd_current |-> row.macd_val,
                                  macd_previous |-> L.last_macd,
                                  in_position |-> ~flat,
                                  current_position_side |-> L.bt.position_side])
                     ELSE Ret(IF flat
                              THEN IF flipped /\ st_dir = 1 THEN "ENTER_CE"
                                   ELSE IF flipped /\ st_dir = -1
                                   THEN "ENTER_PE"
                                   ELSE "HOLD"
                              ELSE IF flipped THEN "EXIT" ELSE "HOLD",
                              L.agent))

RECURSIVE SumPnl(_)
\* sum(t.pnl_points or 0.0 for t in closed_trades)
SumPnl(closed) ==
    IF closed = <<>> THEN 0
    ELSE Val(Head(closed).pnl_points) + SumPnl(Tail(closed))

RECURSIVE DrawdownOfLast(_, _, _)
DrawdownOfLast(equity, running_max, max_dd) ==
    IF equity = <<>> THEN max_dd
    ELSE DrawdownOfLast(Tail(equity), Some(Head(equity)),
                        IF running_max = None THEN 0
                        ELSE Val(running_max) - Head(equity))

RECURSIVE equity_max_drawdown(_, _, _)
\* _equity_max_drawdown: the loop from (running_max, max_dd); running_max
\* None stands for -inf
equity_max_drawdown(equity, running_max, max_dd) ==
    IF equity = <<>> THEN max_dd
    ELSE LET x == Head(equity)
             rm == IF running_max = None THEN x ELSE Max(Val(running_max), x)
         IN  equity_max_drawdown(Tail(equity), Some(rm), Max(max_dd, rm - x))

\* after the loop: the end-of-data close, the closed trades and the metrics
Result(L, a) ==
    LET eod == /\ a.close_open_position_at_end
               /\ L.bt.position_side # None
               /\ L.bt.entry_price # None
               /\ L.close # None
        L1 == IF eod
              THEN CloseTrade(L, Val(L.close),
                              calc_points_pnl(Val(L.bt.position_side),
                                              Val(L.bt.entry_price),
                                              Val(L.close)),
                              "EOD")
              ELSE L
        closed == SelectSeq(L1.trades, LAMBDA t : t.pnl_points # None)
    IN  [trades |-> closed,
         total_trades |-> Len(closed),
         total_pnl_points |-> SumPnl(closed),
         wins |-> Len(SelectSeq(closed, LAMBDA t : Val(t.pnl_points) > 0)),
         losses |-> Len(SelectSeq(closed, LAMBDA t : Val(t.pnl_points) < 0)),
         max_drawdown |-> equity_max_drawdown(L1.equity_curve, None, 0),
         equity_curve |-> L1.equity_curve]

\* run_backtest is called: the mode check, then the locals
RunBacktestBegin ==
    /\ rp.pc = "idle"
    /\ \E a \in ReplayArgs :
          IF a.policy \notin {"agent", "supertrend", ""}
          THEN rp' = [rp EXCEPT !.args = Some(a), !.out = Some([error |-> "ValueError"])]
          ELSE rp' = [pc |-> "rows",
                      args |-> Some(a),
                      run |-> Some(StartLocals(rp.run)),
                      ref |-> Some(StartLocals(None)),
                      out |-> None]
    /\ UNCHANGED <<bt_params, bt, bt_eval, rs, loopVars, cfgVars, trailVars, agentVars, entryVars,
                   stVars>>

RunBacktestRow ==
    /\ rp.pc = "rows"
    /\ \E row \in ReplayRows :
       \E L \in {ReplayRow(Val(rp.run), row, Val(rp.args))} :
          /\ Len(L.trades) <= MaxBtTrades
          /\ rp' = [rp EXCEPT
                       !.run = Some(L),
                       !.ref = Some(ReplayRow(Val(rp.ref), row, Val(rp.args)))]
    /\ UNCHANGED <<bt_params, bt, bt_eval, rs, loopVars, cfgVars, trailVars, agentVars, entryVars,
                   stVars>>

\* the rows are used up: run_backtest returns
RunBacktestEnd ==
    /\ rp.pc = "rows"
    /\ rp' = [rp EXCEPT
                 !.pc = "idle",
                 !.out = Some([run |-> Result(Val(rp.run), Val(rp.args)),
                               ref |-> Result(Val(rp.ref), Val(rp.args))])]
    /\ UNCHANGED <<bt_params, bt, bt_eval, rs, loopVars, cfgVars, trailVars, agentVars, entryVars,
                   stVars>>

ReplayStart == LoopIdle /\ CompInit

ReplaySpec ==
    ReplayStart
    /\ [][RunBacktestBegin \/ RunBacktestRow \/ RunBacktestEnd]_vars


\* ------------------------------------------------------- _resample_candles
\* Timestamps are minutes, UTC; the conversion to IST adds 05:30 (time_utils
\* is not part of the sources; the offset is the one the code names).
MaxRsRows == 3

IstOffset == 330

\* _floor_to_timeframe_ist: the minute of the hour is floored, the date and
\* the hour are kept
floor_to_timeframe_ist(dt_utc, timeframe_minutes) ==
    LET ist == dt_utc + IstOffset
        minute == ((ist % 60) \div timeframe_minutes) * timeframe_minutes
    IN  (ist \div 60) * 60 + minute

RECURSIVE resample_candles(_, _, _, _)
\* the loop of _resample_candles; bucket holds bucket_key as its timestamp
resample_candles(rows, tf, out, bucket) ==
    LET flushed == IF bucket # None THEN Append(out, Val(bucket)) ELSE out
    IN  IF rows = <<>> THEN flushed
        ELSE LET row == Head(rows)
                 key == floor_to_timeframe_ist(Val(row.timestamp), tf)
             IN  IF row.timestamp = None
                 THEN resample_candles(Tail(rows), tf, out, bucket)
                 ELSE IF bucket = None \/ key # Val(bucket).timestamp
                 THEN resample_candles(Tail(rows), tf, flushed,
                                       Some([timestamp |-> key,
                                             high |-> row.high,
                                             low |-> row.low,
                                             close |-> row.close,
                                             open |-> row.open]))
                 ELSE resample_candles(
                          Tail(rows), tf, out,
                          Some([Val(bucket) EXCEPT
                                   !.high = Max(@, row.high),
                                   !.low = Min(@, row.low),
                                   !.close = row.close]))

\* _resample_candles is called
Resample ==
    /\ rs.out = None
    /\ rs' = [rs EXCEPT !.out =
                 Some(IF rs.timeframe_minutes <= 1 \/ rs.candles = <<>>
                      THEN rs.candles
                      ELSE resample_candles(rs.candles, rs.timeframe_minutes,
                                            <<>>, None))]
    /\ UNCHANGED <<bt_params, bt, bt_eval, rp, loopVars, cfgVars, trailVars, agentVars, entryVars,
                   stVars>>

\* up to MaxRsRows stored candles in time order, some with a timestamp that
\* does not parse (None), and a timeframe
ResampleStart ==
    /\ LoopIdle
    /\ CfgInit
    /\ TrailInit
    /\ AgentInit
    /\ EntryInit
    /\ StInit(2)
    /\ bt_params = BtParam(0, 0, 0, 0)
    /\ bt = BtFlat
    /\ bt_eval = None
    /\ rp = [pc |-> "idle", args |-> None, run |-> None, ref |-> None,
             out |-> None]
    /\ \E n \in 0..MaxRsRows :
       \E tf \in {0, 1, 5, 120} :
       \E cs \in [1..n -> {r \in [timestamp : {None} \cup
                                      {Some(t) : t \in {0, 1, 4, 5, 60, 90}},
                                  open : 1..2, high : 1..2, low : 1..2,
                                  close : 1..2] :
                             /\ r.low <= r.open /\ r.open <= r.high
                             /\ r.low <= r.close /\ r.close <= r.high}] :
          /\ \A i, j \in 1..n :
                (i < j /\ cs[i].timestamp # None /\ cs[j].timestamp # None)
                   => Val(cs[i].timestamp) < Val(cs[j].timestamp)
          /\ rs = [candles |-> cs, timeframe_minutes |-> tf, out |-> None]

ResampleSpec == ResampleStart /\ [][Resample]_vars

\* ========================================================= bot_service.py
\* update_config_values, whole calls.  The strategy mode, the candle
\* interval and four risk thresholds of the update are followed; the other
\* fields are stored the way the thresholds are (int() or float() of the
\* value).  selected_index is checked against indices.py.

valid_intervals == {5, 15, 30, 60, 300, 900}

RiskKeys == {"daily_max_loss", "initial_stoploss", "target_points",
             "trail_step"}

\* str(requested).strip().lower() on the names the updates carry
strip_lower(requested) ==
    CASE requested = " Flip " -> "flip"
      [] requested = "Agent" -> "agent"
      [] OTHER -> requested

\* mode_map.get(normalized)
mode_map(normalized) ==
    CASE normalized \in {"agent", "st+adx+macd", "st_adx_macd"}
           -> Some("agent")
      [] normalized \in {"supertrend", "supertrend_flip", "supertrend flip",
                         "flip"}
           -> Some("supertrend")
      [] normalized \in {"st_macd_hist", "st+macd_hist", "st + macd hist",
                         "st + macd histogram", "st_macd_histogram"}
           -> Some("st_macd_hist")
      [] OTHER -> None

\* the updates of one request (None: the field is absent)
Updates ==
    [strategy_mode : {None, Some("Agent"), Some(" Flip "), Some("scalper")},
     candle_interval : {None, Some(60), Some(7)},
     daily_max_loss : {None, Some(-1), Some(2)},
     initial_stoploss : {None, Some(-1), Some(2)},
     target_points : {None, Some(-1), Some(2)},
     trail_step : {None, Some(-1), Some(2)}]

\* config[key] once the update has been applied: float(updates[key]),
\* whatever its sign
stored(c, updates, key) ==
    IF updates[key] = None THEN c[key] ELSE Val(updates[key])

update_config_values ==
    /\ cu.call = None
    /\ \E updates \in Updates :
          LET c == cu.config
              m == IF updates.strategy_mode = None THEN None
                   ELSE mode_map(strip_lower(Val(updates.strategy_mode)))
              interval_ok ==
                  /\ updates.candle_interval # None
                  /\ Val(updates.candle_interval) \in valid_intervals
              updated ==
                  {k \in RiskKeys : updates[k] # None}
                    \cup (IF m # None THEN {"strategy_mode"} ELSE {})
                    \cup (IF interval_ok THEN {"candle_interval"} ELSE {})
          IN  /\ cu' = [config |->
                          [strategy_mode |->
                               IF m # None THEN Val(m) ELSE c.strategy_mode,
                           candle_interval |->
                               IF interval_ok
                               THEN Val(updates.candle_interval)
                               ELSE c.candle_interval,
                           daily_max_loss |->
                               stored(c, updates, "daily_max_loss"),
                           initial_stoploss |->
                               stored(c, updates, "initial_stoploss"),
                           target_points |->
                               stored(c, updates, "target_points"),
                           trail_step |-> stored(c, updates, "trail_step")],
                        call |-> Some([updates |-> updates, before |-> c,
                                       updated |-> updated])]
              \* bot.reset_indicator() when the interval was accepted
              /\ IF interval_ok
                 THEN /\ hist_window' = <<>>
                      /\ entry_met' = None
                      /\ uni' = NoUniverse
                 ELSE UNCHANGED <<hist_window, entry_met, uni>>
              \* bot_state['strategy_mode'] = mode, then
              \* bot.apply_strategy_config() when the update names a mode
              /\ strategy_mode' =
                     IF updates.strategy_mode = None THEN strategy_mode
                     ELSE apply_strategy_config(IF m # None THEN Val(m)
                                                ELSE strategy_mode)
    /\ UNCHANGED <<running, pc, mode, config, clock, date, last_reset_date,
                   position, entry_price, trailing_sl, highest_profit, ltp,
                   daily_pnl, daily_trades, halted, pend, sig, exit_fills,
                   entry_fill, phases>>
    /\ UNCHANGED <<sel, agentVars, stVars, btVars, trailVars>>

\* the call returns {"status": "success", "updated": updated_fields}
update_config_return ==
    /\ cu.call # None
    /\ cu' = [cu EXCEPT !.call = None]
    /\ UNCHANGED <<loopVars, agentVars, entryVars, stVars, btVars, trailVars>>

ConfigStart == LoopIdle /\ CompInit

ConfigSpec ==
    ConfigStart /\ [][update_config_values \/ update_config_return]_vars

\* ------------------------------------------- step trailing, tick by tick
\* An open Position in the step-trailing mode between two candle closes:
\* every loop iteration fetches a price and runs check_tick_sl on it.  hfe
\* follows the highest profit the ticks have shown since the entry.
MaxTrailPrice == 7

TrailEntries == {3, 4}

\* initial stop, trail start and trail step all enabled; caps and target off
TrailConfigs ==
    {RiskConfig(0, 0, 0, tsp, ts, isl, 1) :
        tsp \in 1..2, ts \in 1..2, isl \in 1..2}

\* check_tick_sl on the price of this iteration, and close_position (paper)
\* when a trigger matches
TickOnPosition ==
    /\ pc = "tick"
    /\ position # None
    /\ \E cur \in 1..MaxTrailPrice :
          LET early == DailyCapHit(cur) \/ TradeCapHit(cur) \/ TargetHit(cur)
              tr == IF early
                    THEN [sl |-> trailing_sl, hp |-> highest_profit]
                    ELSE UpdateTrailing(cur)
              reason == FirstTrigger(DailyCapHit(cur), TradeCapHit(cur),
                                     TargetHit(cur), StopHit(tr.sl, cur))
          IN  /\ ltp' = cur
              /\ IF reason # "none"
                 THEN /\ CloseApplied(cur, reason = "Daily Max Loss")
                      /\ hfe' = 0
                 ELSE /\ trailing_sl' = tr.sl
                      /\ highest_profit' = tr.hp
                      /\ hfe' = Max(hfe, cur - entry_price)
                      /\ UNCHANGED <<daily_pnl, halted, position, entry_price>>
    /\ UNCHANGED <<running, pc, mode, strategy_mode, config, clock, date,
                   last_reset_date, daily_trades, pend, sig, exit_fills,
                   entry_fill, phases, held_tracker, held_strike>>
    /\ UNCHANGED <<agentVars, entryVars, stVars, btVars, cfgVars>>

\* a Position just entered (paper) with no band value, the loop at its
\* tick check
TrailStart ==
    /\ CompInit
    /\ running = TRUE
    /\ pc = "tick"
    /\ mode = "paper"
    /\ strategy_mode = "agent"
    /\ config \in TrailConfigs
    /\ clock = 2
    /\ date = 1
    /\ last_reset_date = 0
    /\ position = Some([option_type |-> "CE"])
    /\ entry_price \in TrailEntries
    /\ trailing_sl = None
    /\ highest_profit = 0
    /\ ltp = entry_price
    /\ daily_pnl = 0
    /\ daily_trades = 1
    /\ halted = FALSE
    /\ pend = NoPend
    /\ sig = None
    /\ exit_fills = 0
    /\ entry_fill = "SIM"
    /\ phases = <<>>

TrailSpec == TrailStart /\ [][TickOnPosition]_vars

\* --------------------------------- the band-anchored stop, close by close
\* An open Position in the band-anchored mode: tick iterations
\* (TickOnPosition) and iterations that close a candle.  The band value is
\* counted in ticks like the price.
BandConfigs ==
    {RiskConfig(0, 0, 0, lock, step, 1, 1) : lock \in 0..2, step \in 0..2}

BandVals == {None} \cup {Some(v) : v \in 2..5}

\* a candle close with the Position open, after the tick check of the same
\* iteration: check_trailing_sl_on_close, the held tracker's new direction
\* and band value, then the EXIT block (reversal, or the stop follows the
\* band and the profit lock)
CandleCloseOnPosition ==
    /\ pc = "tick"
    /\ position # None
    /\ \E dir \in {1, -1} : \E val \in BandVals :
          LET tr == UpdateTrailing(ltp)
              anchored == ApplyProfitLock(position, entry_price,
                                          BandAnchor(tr.sl, val), tr.hp, ltp)
          IN  /\ dir = -1 => val # None
              /\ held_tracker' = [last_st_dir |-> Some(dir), last_st_value |-> val]
              /\ IF TargetHit(ltp) \/ StopHit(tr.sl, ltp) \/ dir = -1
                 THEN /\ CloseApplied(ltp, FALSE)
                      /\ hfe' = 0
                 ELSE /\ trailing_sl' = IF val # None THEN anchored.sl
                                        ELSE tr.sl
                      /\ highest_profit' = IF val # None THEN anchored.hp
                                           ELSE tr.hp
                      /\ UNCHANGED <<daily_pnl, halted, position, entry_price,
                                     hfe>>
    /\ UNCHANGED <<running, pc, mode, strategy_mode, config, clock, date,
                   last_reset_date, ltp, daily_trades, pend, sig, exit_fills,
                   entry_fill, phases, held_strike>>
    /\ UNCHANGED <<agentVars, entryVars, stVars, btVars, cfgVars>>

\* a Position just entered (paper) at 3 on a contract whose band value, if
\* it has one, became the stop; the loop at its tick check
BandStart ==
    /\ CompInit
    /\ running = TRUE
    /\ pc = "tick"
    /\ mode = "paper"
    /\ strategy_mode = "st_macd_hist"
    /\ config \in BandConfigs
    /\ clock = 2
    /\ date = 1
    /\ last_reset_date = 0
    /\ position = Some([option_type |-> "CE"])
    /\ entry_price = 3
    /\ trailing_sl \in {None, Some(2)}
    /\ highest_profit = 0
    /\ ltp = entry_price
    /\ daily_pnl = 0
    /\ daily_trades = 1
    /\ halted = FALSE
    /\ pend = NoPend
    /\ sig = None
    /\ exit_fills = 0
    /\ entry_fill = "SIM"
    /\ phases = <<>>

BandSpec == BandStart /\ [][TickOnPosition \/ CandleCloseOnPosition]_vars


\* ------------------------------- the held contract and the universe
\* The candle close of run_loop in universe mode with a Position open.  The
\* EXIT block looks the held contract's tracker up in _opt_trackers by
\* strike and side and runs only when it finds one.
HeldVals == {Some(2)}

HeldKey == <<Val(held_strike), Val(position).option_type>>

active_tracker ==
    IF HeldKey \in DOMAIN uni.trackers THEN Some(uni.trackers[HeldKey])
    ELSE None

CandleCloseHeld ==
    /\ pc = "tick"
    /\ position # None
    /\ held_strike # None
    /\ LET tr == UpdateTrailing(ltp)
       IN  IF TargetHit(ltp) \/ StopHit(tr.sl, ltp)
           THEN /\ CloseApplied(ltp, FALSE)
                /\ UNCHANGED <<uni, held_tracker>>
           ELSE IF active_tracker = None
           THEN /\ trailing_sl' = tr.sl
                /\ highest_profit' = tr.hp
                /\ UNCHANGED <<daily_pnl, halted, position, entry_price, uni,
                               held_tracker>>
           ELSE \E dir \in {None, Some(1), Some(-1)} :
                \E val \in IF dir = None THEN {None} ELSE HeldVals :
                   LET anchored ==
                           ApplyProfitLock(position, entry_price,
                                           BandAnchor(tr.sl, val), tr.hp, ltp)
                   IN  /\ uni' = [uni EXCEPT !.trackers[HeldKey].warm = TRUE]
                       /\ held_tracker' = [last_st_dir |-> dir,
                                           last_st_value |-> val]
                       /\ IF dir = Some(-1)
                          THEN CloseApplied(ltp, FALSE)
                          ELSE /\ trailing_sl' = IF val # None THEN anchored.sl
                                                 ELSE tr.sl
                               /\ highest_profit' = IF val # None
                                                    THEN anchored.hp ELSE tr.hp
                               /\ UNCHANGED <<daily_pnl, halted, position,
                                              entry_price>>
    /\ UNCHANGED <<running, pc, mode, strategy_mode, config, clock, date,
                   last_reset_date, ltp, daily_trades, pend, sig, exit_fills,
                   entry_fill, phases, hfe, held_strike>>
    /\ UNCHANGED <<hist_window, entry_met, sel, agentVars, stVars, btVars,
                   cfgVars>>

\* a Position entered (paper) at 3 on the CE of strike 1 or 2 of the universe
\* built around strike 2, every contract resolved and every tracker fed
HeldStart ==
    /\ AgentInit /\ StInit(2) /\ BtInit(BtParam(0, 0, 0, 0)) /\ CfgInit
    /\ hist_window = <<>>
    /\ entry_met = None
    /\ sel = [eligible_ce |-> {}, eligible_pe |-> {}, center |-> 0,
              done |-> FALSE, chosen |-> None]
    /\ uni = [center |-> Some(2), expiry |-> Some(1),
              contracts |-> [x \in 1..3 |-> [CE |-> 1, PE |-> 1]],
              trackers |-> [k \in (1..3) \X {"CE", "PE"} |->
                               [security_id |-> 1, expiry |-> 1,
                                warm |-> TRUE]],
              resolved |-> [x \in 1..3 |-> [CE |-> 1, PE |-> 1]]]
    /\ hfe = 0
    /\ held_tracker = [last_st_dir |-> None, last_st_value |-> None]
    /\ held_strike \in {Some(1), Some(2)}
    /\ running = TRUE
    /\ pc = "tick"
    /\ mode = "paper"
    /\ strategy_mode = "st_macd_hist"
    /\ config = RiskConfig(0, 0, 0, 0, 0, 1, 1)
    /\ clock = 2
    /\ date = 1
    /\ last_reset_date = 0
    /\ position = Some([option_type |-> "CE"])
    /\ entry_price = 3
    /\ trailing_sl = None
    /\ highest_profit = 0
    /\ ltp = 3
    /\ daily_pnl = 0
    /\ daily_trades = 1
    /\ halted = FALSE
    /\ pend = NoPend
    /\ sig = None
    /\ exit_fills = 0
    /\ entry_fill = "SIM"
    /\ phases = <<>>

HeldSpec == HeldStart /\ [][EnsureUniverse \/ CandleCloseHeld]_vars

\* =============================================================== claims
Opened == position = None /\ position' # None

\* C1: while a Position stays open, its stop level, once set, stays set and
\* never moves down, whichever update touches it and in either strategy mode.
C1_StopNeverDecreases ==
    [][(position # None /\ position' # None /\ trailing_sl # None)
         => (trailing_sl' # None /\ trailing_sl'[1] >= trailing_sl[1])]_vars

C1_Witness ==
    /\ position # None
    /\ highest_profit > 0
    /\ trailing_sl # None
    /\ entry_price > 0
    /\ trailing_sl[1] > entry_price

\* C2: the tick check closes for the first of daily cap, per-trade cap,
\* target, trailing stop that holds; daily cap and target together close
\* with "Daily Max Loss".
C2_TickPriority ==
    [][(pc = "tick" /\ position # None /\ ltp > 0) =>
         LET pnl == (ltp - entry_price) * config.order_qty
             daily == config.daily_max_loss > 0
                      /\ daily_pnl + pnl < -config.daily_max_loss
             trade == config.max_loss_per_trade > 0
                      /\ pnl < -config.max_loss_per_trade
             target == config.target_points > 0
                       /\ ltp - entry_price >= config.target_points
             stop == trailing_sl' # None /\ trailing_sl'[1] # 0
                     /\ ltp <= trailing_sl'[1]
             want == IF daily THEN "Daily Max Loss"
                     ELSE IF trade THEN "Max Loss Per Trade"
                     ELSE IF target THEN "Target Hit"
                     ELSE IF stop THEN "Trailing SL Hit"
                     ELSE "none"
         IN  IF want = "none" THEN pc' = "candle"
             ELSE pc' = "closing" /\ pend'.reason = want]_vars

C2_Witness ==
    /\ pc = "closing"
    /\ pend.ret = AfterTickExit
    /\ pend.reason = "Daily Max Loss"
    /\ config.target_points > 0
    /\ ltp - entry_price >= config.target_points

\* C3: while the halt flag is set no Position is created, and only the daily
\* reset clears the flag.
C3_HaltBlocksEntry ==
    [][/\ halted => ~Opened
       /\ (halted /\ ~halted') => last_reset_date' # last_reset_date]_vars

\* C4: in live mode a Position exists only if its entry order is filled.
C4_LiveFillConfirmed ==
    (mode = "live" /\ position # None) => entry_fill = "FILLED"

\* C5: an entry order is submitted, and a Position created, only while no
\* Position is open.
C5_EntryOnlyWhenFlat ==
    [][((pc # "entering" /\ pc' = "entering") \/ position' # position
        \/ (pend.op = "enter" /\ ~pend.sent /\ pend'.sent))
         => (position = None \/ position' = None)]_vars

C5_Witness ==
    /\ pc = "entering"
    /\ pend.sent
    /\ position = None
    /\ daily_trades >= 1
    /\ "exit_eval" \in {phases[i] : i \in DOMAIN phases}

\* C6: a refused entry leaves entry price, stop level and trade count as they
\* were; a refused exit leaves the Position, entry price, stop level, daily
\* PnL and halt flag as they were.
C6_RefusedOrderChangesNothing ==
    [][/\ (pc = "entering" /\ pc' # "entering" /\ position' = None)
            => UNCHANGED <<entry_price, trailing_sl, daily_trades>>
       /\ (pc = "closing" /\ pc' # "closing" /\ position' # None)
            => UNCHANGED <<position, entry_price, trailing_sl, daily_pnl,
                           halted>>]_vars

\* C7: the broker accepts at most one exit order for any one Position.
C7_OneExitOrder == exit_fills <= 1

\* C8: the daily trade counter goes up by one with every Position created
\* and is otherwise changed only by the daily reset.
C8_TradeCount ==
    [][IF Opened THEN daily_trades' = daily_trades + 1
       ELSE \/ daily_trades' = daily_trades
            \/ daily_trades' = 0 /\ last_reset_date' # last_reset_date]_vars

C8_Witness ==
    /\ position # None
    /\ daily_trades = MaxTradesPerDay

\* C9: within an iteration the tick check comes before the candle-close
\* check, that before the exit evaluation, that before the entry; an
\* iteration whose tick check closes does nothing else.
PhaseRank(ph) ==
    IF ph = "tick" THEN 1
    ELSE IF ph = "close_check" THEN 2
    ELSE IF ph = "exit_eval" THEN 3
    ELSE 4

C9_PhaseOrder ==
    /\ \A i, j \in DOMAIN phases :
          i < j => /\ phases[i] # "tick_exit"
                   /\ phases[j] # "tick_exit"
                   /\ PhaseRank(phases[i]) < PhaseRank(phases[j])
    /\ (\E i \in DOMAIN phases : phases[i] = "tick_exit") => pc = "closing"

C9_Witness ==
    phases = <<"tick", "close_check", "exit_eval", "entry">>

\* C10: once stopped, the loop task's only step is its termination; it does
\* so without an order submitted and unapplied, changes nothing, and it does
\* terminate.
C10_StopTerminates ==
    /\ [][(~running /\ pc # "idle" /\ (pc' # pc \/ pend' # pend))
            => /\ pc' = "idle"
               /\ ~pend.sent
               /\ UNCHANGED <<riskVars, ltp, exit_fills, entry_fill>>]_vars
    /\ (~running /\ pc # "idle") ~> (pc = "idle")

C10_Witness ==
    /\ ~running
    /\ pc = "idle"
    /\ position # None
    /\ daily_trades > 0

\* C11: while the loop is running, a step that is not a step of the loop (the
\* loop stays parked at its sleep) leaves the position, the risk state and the
\* daily counters as they were.
C11_OnlyLoopWrites ==
    [][(running /\ pc = "sleep" /\ pc' = pc) => UNCHANGED riskVars]_vars

\* C12: a decide call that finds wave_lock set and a MACD below the reset
\* threshold clears the lock before any rule reads it: the lock is clear
\* after a call that returned HOLD or EXIT, and a flat candle that meets the
\* entry rules enters on that very call.
C12_ResetFirst ==
    [][(DecideStep /\ agent.wave_lock /\ SmallMacd(In))
         => /\ Act \in {"HOLD", "EXIT"} => ~agent'.wave_lock
            /\ (/\ AllAvailable(In)
                /\ ~In.in_position
                /\ In.supertrend_flipped
                /\ Val(In.adx_value) >= adx_min
                /\ In.supertrend_direction = Some(1)
                /\ Val(In.macd_current) > 0
                /\ Val(In.macd_current) > Val(In.macd_previous))
               => Act = "ENTER_CE"]_vars

C12_Witness ==
    /\ call # None
    /\ Val(call).locked
    /\ SmallMacd(Val(call).inputs)
    /\ Val(call).action = "EXIT"
    /\ ~agent.wave_lock

\* C13: a flat decide call returns ENTER_CE exactly when every indicator is
\* available, the lock is clear after this call's reset step, the direction
\* flipped, ADX is at least adx_min, the direction is +1 and the MACD is
\* positive and above the previous one; ENTER_PE is the mirror image; it
\* returns HOLD otherwise.  An ENTER sets the lock and records the side; a
\* HOLD leaves last_trade_side alone.
C13_FlatEntry ==
    [][(DecideStep /\ ~In.in_position)
         => LET lockAfterReset == agent.wave_lock /\ ~SmallMacd(In)
                common == /\ AllAvailable(In)
                          /\ ~lockAfterReset
                          /\ In.supertrend_flipped
                          /\ Val(In.adx_value) >= adx_min
                ce == /\ common
                      /\ In.supertrend_direction = Some(1)
                      /\ Val(In.macd_current) > 0
                      /\ Val(In.macd_current) > Val(In.macd_previous)
                pe == /\ common
                      /\ In.supertrend_direction = Some(-1)
                      /\ Val(In.macd_current) < 0
                      /\ Val(In.macd_current) < Val(In.macd_previous)
            IN  /\ Act = "ENTER_CE" <=> ce
                /\ Act = "ENTER_PE" <=> pe
                /\ Act = "HOLD" <=> ~(ce \/ pe)
                /\ Act = "ENTER_CE"
                     => agent'.wave_lock /\ agent'.last_trade_side = Some("CE")
                /\ Act = "ENTER_PE"
                     => agent'.wave_lock /\ agent'.last_trade_side = Some("PE")
                /\ Act = "HOLD"
                     => agent'.last_trade_side = agent.last_trade_side]_vars

C13_Witness ==
    /\ call # None
    /\ Val(call).action = "ENTER_PE"
    /\ Val(call).locked
    /\ agent = [wave_lock |-> TRUE, last_trade_side |-> Some("PE")]

\* C14: once an ENTER was returned, no decide call returns ENTER_CE or
\* ENTER_PE before a candle whose MACD is below the reset threshold.
C14_WaveLock ==
    [][(DecideStep /\ entered_wave /\ Act \in EnterActions)
         => SmallMacd(In)]_vars

C14_Witness ==
    /\ call # None
    /\ Val(call).locked
    /\ Val(call).action \in EnterActions
    /\ entered_wave

C16_SlopeBand ==
    entry_met # None =>
        (Val(entry_met).ok <=>
            /\ Val(entry_met).st_direction = Some(1)
            /\ Len(hist_window) = 3
            /\ hist_window[1] < hist_window[2]
            /\ hist_window[2] < hist_window[3]
            /\ hist_window[3] > 2
            /\ hist_window[3] < 5)

C16_Witness ==
    /\ entry_met # None
    /\ Val(entry_met).ok
    /\ hist_window = <<1, 2, 4>>

\* C16, the refusals: fewer than three values, and either end of the band
C16_WitnessRefused ==
    /\ entry_met # None
    /\ ~Val(entry_met).ok
    /\ Val(entry_met).st_direction = Some(1)
    /\ hist_window = <<3, 4, 5>>

\* C17: on a candle for which add_candle emits a value, the direction goes
\* from +1 to -1 only if the close is below that candle's final lower band
\* and from -1 to +1 only if it is above the final upper band; this includes
\* the first emitting candle, against the direction reported before it.
C17_FlipOnlyOnCross ==
    [][(CandleStep /\ st_ret'.value # None)
         => /\ (st.direction = 1 /\ st'.direction = -1)
                 => ClosePrice < EmittedBand.lower
            /\ (st.direction = -1 /\ st'.direction = 1)
                 => ClosePrice > EmittedBand.upper]_vars

\* C18: while fewer than period candles were fed, add_candle returns no
\* value and no signal, and the tracker holds no definite direction.
C18_NotReady ==
    Fed < st.period =>
        /\ st_ret = NoValue
        /\ tracker.last_st_dir = None

\* C19: the capped indicator returns what the uncut one returns, reports the
\* same direction, and keeps at most HistoryCap candles, ATR values and
\* band entries.
C19_CapHarmless ==
    /\ st_ret = ref_ret
    /\ st.direction = st_ref.direction
    /\ Len(st.candles) <= HistoryCap
    /\ Len(st.atr_values) <= HistoryCap
    /\ Len(st.supertrend_values) <= HistoryCap

\* C20: in the replay, a candle whose high/low range reaches both the
\* effective stop and the target of the open trade closes the trade by the
\* stop ("Stoploss Hit" or "Trailing SL Hit"), never by "Target Hit".
C20_StopBeforeTarget ==
    (bt_eval # None /\ ReachesBoth(Val(bt_eval)))
        => /\ Val(bt_eval).exit_reason # None
           /\ Val(Val(bt_eval).exit_reason) \in StopReasons
           /\ bt = BtFlat

C20_Witness ==
    /\ bt_eval # None
    /\ ReachesBoth(Val(bt_eval))
    /\ Val(bt_eval).side = "PE"
    /\ Val(bt_eval).exit_reason = Some("Trailing SL Hit")
    /\ bt = BtFlat

C23_NoMirror ==
    bt_eval # None =>
        LET e == Val(bt_eval)
        IN  /\ e.pnl_points # None
                  => Val(e.pnl_points) = Val(e.exit_price) - Val(e.entry_price)
            /\ e.target # None
                  => Val(e.target) = Val(e.entry_price) + bt_params.target_points
            /\ (e.effective_stop # None /\ bt_params.trail_start_profit = 0)
                  => Val(e.effective_stop)
                         = Val(e.entry_price) - bt_params.initial_stoploss

C25_EquityCurve ==
    LET RunningSum(curve, trades) ==
            LET closed == SelectSeq(trades, LAMBDA t : t.pnl_points # None)
            IN  /\ curve[1] = 0
                /\ Len(curve) = Len(closed) + 1
                /\ \A i \in 1..Len(closed) :
                      curve[i + 1] = curve[i] + Val(closed[i].pnl_points)
        Drops(curve) ==
            {curve[j] - curve[i] : <<j, i>> \in
                {x \in (1..Len(curve)) \X (1..Len(curve)) : x[1] <= x[2]}}
    IN  /\ (rp.pc = "rows")
              => RunningSum(Val(rp.run).equity_curve, Val(rp.run).trades)
        /\ (rp.pc = "idle" /\ rp.out # None /\ "run" \in DOMAIN Val(rp.out))
              => LET o == Val(rp.out).run
                 IN  /\ RunningSum(o.equity_curve, o.trades)
                     /\ o.max_drawdown \in Drops(o.equity_curve)
                     /\ \A d \in Drops(o.equity_curve) : o.max_drawdown >= d
                     /\ o.max_drawdown >= 0
                     /\ o.total_pnl_points = o.equity_curve[Len(o.equity_curve)]

\* a replay that won one point, lost it again and reports a drawdown of one
C25_Witness ==
    /\ rp.pc = "idle"
    /\ rp.out # None
    /\ "run" \in DOMAIN Val(rp.out)
    /\ Val(rp.out).run.equity_curve = <<0, 1, 0>>
    /\ Val(rp.out).run.max_drawdown = 1

\* C26: resampling time-ordered candles to N-minute buckets (N >= 2) gives one
\* output candle per N-minute window that holds an input candle, in time
\* order, with the open of the window's first candle, the highest high, the
\* lowest low and the close of its last candle.
C26_Resample ==
    (/\ rs.out # None
     /\ rs.timeframe_minutes >= 2
     /\ \A i \in DOMAIN rs.candles : rs.candles[i].timestamp # None)
    => LET N == rs.timeframe_minutes
           out == Val(rs.out)
           Window(i) == (Val(rs.candles[i].timestamp) + IstOffset) \div N
           windows == {Window(i) : i \in DOMAIN rs.candles}
           Rows(w) == {i \in DOMAIN rs.candles : Window(i) = w}
           First(S) == CHOOSE i \in S : \A j \in S : i <= j
           Final(S) == CHOOSE i \in S : \A j \in S : i >= j
       IN  /\ Len(out) = Cardinality(windows)
           /\ \A k \in DOMAIN out :
                 LET w == out[k].timestamp \div N
                     S == Rows(w)
                 IN  /\ w \in windows
                     /\ \A m \in DOMAIN out : m < k => out[m].timestamp \div N < w
                     /\ out[k].open = rs.candles[First(S)].open
                     /\ out[k].close = rs.candles[Final(S)].close
                     /\ \A i \in S : /\ out[k].high >= rs.candles[i].high
                                     /\ out[k].low <= rs.candles[i].low
                     /\ \E i \in S : out[k].high = rs.candles[i].high
                     /\ \E i \in S : out[k].low = rs.candles[i].low

\* C27: the entry choice is a CE whenever a CE is eligible, however far from
\* the ATM strike, otherwise a PE; within the kind it is an eligible strike
\* with the smallest distance to the ATM strike, the lower one of two equally
\* distant; with nothing eligible nothing is chosen.
C27_ContractChoice ==
    sel.done =>
        LET kind == IF sel.eligible_ce # {} THEN "CE" ELSE "PE"
            cands == IF sel.eligible_ce # {} THEN sel.eligible_ce
                     ELSE sel.eligible_pe
        IN  IF cands = {} THEN sel.chosen = None
            ELSE /\ sel.chosen # None
                 /\ Val(sel.chosen).option_type = kind
                 /\ Val(sel.chosen).strike \in cands
                 /\ \A y \in cands :
                       LET dx == Abs(Val(sel.chosen).strike - sel.center)
                           dy == Abs(y - sel.center)
                       IN  dx < dy \/ (dx = dy /\ Val(sel.chosen).strike <= y)

\* a CE two strikes above the ATM strike is chosen although a PE at the ATM
\* strike is eligible, and it is the lower of two CE at the same distance
C27_Witness ==
    /\ sel.done
    /\ sel.center = 2
    /\ sel.eligible_ce = {3, 1}
    /\ 2 \in sel.eligible_pe
    /\ sel.chosen = Some([option_type |-> "CE", strike |-> 1])

\* C28: when the contract chosen for entry is of the other kind than the open
\* Position (and a price is known), the close with reason "Reverse Entry" is
\* started before anything else and the entry follows only once the Position
\* is gone; when the open Position is of the chosen kind nothing is closed
\* and no entry is made.
C28_ReverseEntry ==
    [][/\ (pc = "cc_entry" /\ sig' # None)
            => IF /\ position # None
                  /\ Val(position).option_type # Val(sig').option_type
                  /\ ltp > 0
               THEN /\ pc' = "closing"
                    /\ pend'.reason = "Reverse Entry"
                    /\ pend'.ret = "cc_enter"
                    /\ position' = position
               ELSE pc' = "cc_enter" /\ pend' = pend
       /\ (pc = "closing" /\ pend.reason = "Reverse Entry")
            => pc' \in {"closing", "cc_enter", "idle"}
       /\ (pc # "entering" /\ pc' = "entering")
            => pc = "cc_enter" /\ position = None
       /\ (pc = "cc_enter" /\ position # None /\ pc' # "cc_enter")
            => /\ pc' \in {"sleep", "idle"}
               /\ pend' = pend
               /\ (position' = position \/ pc' = "idle")]_vars

\* the close of a CE Position for the entry of a PE is under way
C28_Witness ==
    /\ pc = "closing"
    /\ pend.reason = "Reverse Entry"
    /\ position = Some([option_type |-> "CE"])
    /\ sig # None
    /\ Val(sig).option_type = "PE"

\* C29: in band mode with n steps, after a rebuild of the universe the
\* tracked strikes are exactly those of the 2n+1 strikes center + i (in
\* strike intervals, i from -n to n) for which the broker resolved a
\* contract, with one tracker per resolved contract bound to its id and to
\* the universe's expiry; no tracker outside the universe is left; and a
\* tracker that stays with the same security id and expiry keeps its
\* indicator state.
C29_UniverseRebuild ==
    [][/\ uni'.center # None =>
            LET band == {Val(uni'.center) + i : i \in (-UniSteps)..UniSteps}
                keys == {k \in band \X {"CE", "PE"} :
                            uni'.resolved[k[1]][k[2]] # 0}
            IN  /\ DOMAIN uni'.resolved = band
                /\ DOMAIN uni'.trackers = keys
                /\ {k[1] : k \in DOMAIN uni'.trackers}
                     = {x \in band : uni'.resolved[x].CE # 0
                                       \/ uni'.resolved[x].PE # 0}
                /\ \A k \in keys :
                      /\ uni'.trackers[k].security_id
                           = uni'.resolved[k[1]][k[2]]
                      /\ Some(uni'.trackers[k].expiry) = uni'.expiry
       /\ \A k \in (DOMAIN uni.trackers) \cap (DOMAIN uni'.trackers) :
             (/\ uni.trackers[k].warm
              /\ uni.trackers[k].security_id = uni'.trackers[k].security_id
              /\ uni.trackers[k].expiry = uni'.trackers[k].expiry)
                => uni'.trackers[k].warm]_vars

\* the universe moved to center 3 at the second expiry: strike 4 has no
\* contract and is not tracked, the put of strike 2 is still warm, the call
\* of strike 3 got a new id and is fresh
C29_Witness ==
    /\ uni.center = Some(3)
    /\ uni.expiry = Some(2)
    /\ DOMAIN uni.contracts = {2, 3}
    /\ uni.resolved[4] = [CE |-> 0, PE |-> 0]
    /\ <<2, "PE">> \in DOMAIN uni.trackers
    /\ uni.trackers[<<2, "PE">>].warm
    /\ <<3, "CE">> \in DOMAIN uni.trackers
    /\ uni.trackers[<<3, "CE">>].security_id = 2
    /\ ~uni.trackers[<<3, "CE">>].warm
    /\ <<1, "CE">> \notin DOMAIN uni.trackers

\* C30: a configuration update that carries an invalid value (a strategy
\* mode that is not known, a candle interval that is not supported, a
\* negative loss cap, stop, target or trail value) leaves the stored value
\* of that field as it was before the update.
C30_InvalidRejected ==
    cu.call # None =>
        LET u == Val(cu.call).updates
            before == Val(cu.call).before
        IN  /\ u.strategy_mode = Some("scalper")
                 => cu.config.strategy_mode = before.strategy_mode
            /\ u.candle_interval = Some(7)
                 => cu.config.candle_interval = before.candle_interval
            /\ \A k \in RiskKeys :
                  (u[k] # None /\ Val(u[k]) < 0)
                     => cu.config[k] = before[k]

C33_BandAnchored ==
    [][(/\ position # None
        /\ position' # None
        /\ ltp' = ltp
        /\ held_tracker'.last_st_value # None) =>
          LET val == Val(held_tracker'.last_st_value)
              lock == config.trail_start_profit
              step == config.trail_step
              base == IF trailing_sl = None THEN val
                      ELSE Max(Val(trailing_sl), val)
          IN  /\ trailing_sl' # None
              /\ Val(trailing_sl') >= base
              /\ (lock = 0 \/ hfe < lock) => Val(trailing_sl') = base
              /\ (lock > 0 /\ hfe >= lock) =>
                    /\ Val(trailing_sl') >= entry_price + lock
                    /\ step > 0 =>
                          Val(trailing_sl') >=
                              entry_price + lock
                                + ((hfe - lock) \div step) * step]_vars

\* the band reported 4 at a candle close while the price stood three points
\* above the entry at 3: with lock 1 and step 2 the stop is 6, above the band
C33_Witness ==
    /\ position # None
    /\ strategy_mode = "st_macd_hist"
    /\ held_tracker.last_st_value = Some(4)
    /\ held_tracker.last_st_dir = Some(1)
    /\ config.trail_start_profit = 1
    /\ config.trail_step = 2
    /\ hfe = 4
    /\ ltp = 7
    /\ trailing_sl = Some(6)

\* C34: whenever no Position is open the stop level is unset and the
\* highest profit is 0: every close resets both and they stay reset until
\* the next Position is created, also after an entry attempt that was
\* aborted.
C34_RiskStateOnlyWithPosition ==
    position = None => (trailing_sl = None /\ highest_profit = 0)

\* C35: the daily-loss halt never suspends the risk checks of an open
\* Position: the halt flag is never latched in a state where a Position is
\* open.
C35_NoHaltWithPosition ==
    ~(halted /\ position # None)

\* C36: every open Position has a strictly positive entry price: an entry
\* whose quote is missing or non-positive creates no Position.
C36_PositiveEntryPrice ==
    position # None => entry_price > 0

\* C37: while a Position is open in band mode, its contract is evaluated at
\* every candle close: the held contract's tracker, which the EXIT block
\* needs, stays among the trackers also after the center has moved away from
\* the held strike.
C37_HeldContractTracked ==
    (position # None /\ held_strike # None) => active_tracker # None

\* C38: in a replay with the threshold+momentum policy the wave-lock reset
\* step runs on every candle: a candle whose |macd| is below the reset
\* threshold leaves the lock cleared, unless an entry on that same candle
\* sets it again; this also on a candle on which a stop/target exit fires.
C38_ResetOnEveryCandle ==
    [][(/\ rp.pc = "rows" /\ rp'.pc = "rows"
        /\ Val(rp.args).policy \in {"agent", ""}
        /\ Val(rp.run).agent.wave_lock
        /\ Val(rp'.run).last_macd # Val(rp.run).last_macd
        /\ Val(rp'.run).last_macd # None
        /\ Abs(Val(Val(rp'.run).last_macd)) < wave_reset_macd_abs
        /\ ~(/\ Val(rp.run).bt.position_side = None
             /\ Val(rp'.run).bt.position_side # None))
         => ~Val(rp'.run).agent.wave_lock]_vars

\* C39: once the force-square-off time is reached with a Position open, the
\* next loop iteration closes the Position (also when the daily-loss halt is
\* latched), and no Position is opened at or after that time of the day.
C39_ForceSquareoffCloses ==
    [][/\ (/\ running /\ pc = "top" /\ pc' # "top"
           /\ should_force_squareoff(Now) /\ position # None)
            => position' = None
       /\ Opened => ~should_force_squareoff(Now)]_vars

\* C40: once update_config_values has accepted a strategy mode m, the mode
\* the live risk manager and the status readers observe
\* (bot_state['strategy_mode']) is m, the mode the configuration stores.
C40_ModeObserved ==
    (cu.call # None /\ "strategy_mode" \in Val(cu.call).updated)
        => strategy_mode = cu.config.strategy_mode

====
